---------------------------- MODULE Spec2Model ----------------------------
(***************************************************************************)
(* Rate limiter (services/rate_limiter.py) over the cache service          *)
(* (services/cache_service.py).                                            *)
(*                                                                         *)
(* Time is counted in ticks, TicksPerSec ticks to the second, so that      *)
(* time.time() and datetime.utcnow() keep a fractional part and            *)
(* int(time.time()) is a real truncation.  Cache keys are the sequences of *)
(* the ':'-separated fields of the Python f-strings.                       *)
(*                                                                         *)
(* Scheduling is asyncio's: a task gives up control only at an await that  *)
(* really suspends.  Every await on RedisCache is a network round trip and *)
(* suspends; InMemoryCache's coroutines contain no await, so with the      *)
(* in-process store a whole check runs without interruption.  In Spec the  *)
(* checks come one after another and the clock advances between checks;    *)
(* in SpecConc NumTasks checks are in flight at once at one clock reading. *)
(***************************************************************************)
EXTENDS Integers, Sequences, FiniteSets, TLC

\* ------------------------------------------------------------------ bounds
MaxLimit == 2
MaxWindow == 2
TicksPerSec == 2
MaxTime == 4
MaxChecks == 4
NumTasks == 3
MaxTokenChecks == 6
MaxPolicyChecks == 2
MaxPairChecks == 2
MaxCount == 2
MaxRequests == 2
MaxSlideChecks == 3

\* ----------------------------------------------------------------- helpers
Max(a, b) == IF a >= b THEN a ELSE b
Min(a, b) == IF a <= b THEN a ELSE b

SeqMin(s) == CHOOSE x \in {s[n] : n \in 1..Len(s)} : \A n \in 1..Len(s) : x <= s[n]

\* Optional[int]: None is the empty sequence, a value v is <<v>>.
None == <<>>
Some(v) == <<v>>

\* int(time.time()): whole seconds of a clock reading in ticks.
IntSeconds(t) == t \div TicksPerSec

\* -------------------------------------------------------------- policies
Strategies == {"fixed_window", "sliding_window", "token_bucket"}

\* RateLimit(requests, window, strategy, burst); burst 0 stands for None
\* (the code reads it only through "burst or requests").
RateLimit(requests, window, strategy, burst) ==
    [requests |-> requests, window |-> window, strategy |-> strategy, burst |-> burst]

\* A burst below every limit but 1, and a burst above every limit.
Bursts == {1, MaxLimit + 1}

RateLimits ==
    {RateLimit(l, w, s, 0) : l \in 1..MaxLimit, w \in 1..MaxWindow, s \in Strategies}
    \cup {RateLimit(l, w, "token_bucket", b) :
            l \in 1..MaxLimit, w \in 1..MaxWindow, b \in Bursts}

TableClasses == {"global", "upload"}
LimitTypes == {"upload"}
Identifiers == {<<"user", "alice">>}
\* Every call site passes is_premium = False (the parameter's default).
PremiumInputs == {FALSE}

\* RateLimiter.__init__: the two tables of the running service.
DefaultLimitsTable ==
    [global   |-> RateLimit(1000, 3600, "fixed_window", 0),
     per_ip   |-> RateLimit(100, 3600, "fixed_window", 0),
     per_user |-> RateLimit(500, 3600, "fixed_window", 0),
     upload   |-> RateLimit(10, 3600, "fixed_window", 0),
     ai_query |-> RateLimit(50, 3600, "fixed_window", 0),
     auth     |-> RateLimit(5, 300, "fixed_window", 0)]

\* the premium "auth" limit below the standard one
PremiumLimitsCut ==
    [global   |-> RateLimit(10000, 3600, "fixed_window", 0),
     per_ip   |-> RateLimit(1000, 3600, "fixed_window", 0),
     per_user |-> RateLimit(5000, 3600, "fixed_window", 0),
     upload   |-> RateLimit(100, 3600, "fixed_window", 0),
     ai_query |-> RateLimit(500, 3600, "fixed_window", 0),
     auth     |-> RateLimit(4, 300, "fixed_window", 0)]
PremiumLimitsTable ==
    [global   |-> RateLimit(10000, 3600, "fixed_window", 0),
     per_ip   |-> RateLimit(1000, 3600, "fixed_window", 0),
     per_user |-> RateLimit(5000, 3600, "fixed_window", 0),
     upload   |-> RateLimit(100, 3600, "fixed_window", 0),
     ai_query |-> RateLimit(500, 3600, "fixed_window", 0),
     auth     |-> RateLimit(10, 300, "fixed_window", 0)]

\* The classes a caller may name: the table's, and one the table lacks.
UnknownClass == "reports"
PolicyClasses == DOMAIN DefaultLimitsTable \cup {UnknownClass}

\* limits.get(limit_type, self.default_limits["global"])
LookupRateLimit(dl, pl, limit_type, is_premium) ==
    LET limits == IF is_premium THEN pl ELSE dl
    IN  IF limit_type \in DOMAIN limits THEN limits[limit_type] ELSE dl["global"]

\* --------------------------------------------------------------- cache keys
cache_key(limit_type, identifier) == <<"rate_limit", limit_type>> \o identifier
window_key(ck, window_start) == ck \o <<ToString(window_start)>>
timestamps_key(ck) == ck \o <<"timestamps">>
bucket_key(ck) == ck \o <<"bucket">>
\* increment_rate_limit: cache_key = f"rate_limit:{identifier}"
rate_limit_key(identifier) == <<"rate_limit">> \o identifier

\* ------------------------------------------------------------- store values
\* json.dumps / json.loads on the values the limiter stores (an int, a list
\* of ints, a dict of two numbers): the text is kept as a tagged value.
json_dumps(v) == [json |-> v]
json_loads(s) == s.json

\* Texts another client of the Redis server may leave under a key: one that
\* is no JSON, and a JSON object without the fields the limiter looks for
\* (not a number, not a list of numbers, no "tokens" / "last_refill").
NotJson == [text |-> "not json"]
ForeignJson == [foreign |-> "{\"owner\": \"x\"}"]
ForeignTexts == {NotJson, ForeignJson}
\* json.loads raises on the text
Unparsable(s) == "text" \in DOMAIN s
\* the text is what json_dumps made of a value of the limiter
OwnJson(s) == "json" \in DOMAIN s

\* What a cache read hands back: Python None, a value the limiter stored, or
\* the object parsed from a foreign JSON text.
NoneReply == [kind |-> "none", value |-> 0]
ValueReply(v) == [kind |-> "value", value |-> v]
ForeignReply == [kind |-> "foreign", value |-> 0]

Entry(v, expires_at) == [value |-> v, expires_at |-> expires_at]
Without(s, k) == [x \in (DOMAIN s) \ {k} |-> s[x]]
With(s, k, e) == [x \in (DOMAIN s) \cup {k} |-> IF x = k THEN e ELSE s[x]]

\* an entry is still handed out at the instant it expires
MemGetReplyLate(s, k, t) ==
    IF k \in DOMAIN s /\ s[k].expires_at >= t THEN ValueReply(s[k].value) ELSE NoneReply
\* InMemoryCache.get: the value while expires_at > utcnow(), else None and
\* the expired entry is deleted.
MemGetReply(s, k, t) ==
    IF k \in DOMAIN s /\ s[k].expires_at > t THEN ValueReply(s[k].value) ELSE NoneReply
MemGetStore(s, k, t) ==
    IF k \in DOMAIN s /\ ~(s[k].expires_at > t) THEN Without(s, k) ELSE s

\* InMemoryCache.set
MemSetStore(s, k, v, ttl, t) == With(s, k, Entry(v, t + ttl * TicksPerSec))

\* InMemoryCache.delete
MemDeleteStore(s, k) == IF k \in DOMAIN s THEN Without(s, k) ELSE s
MemDeleteReply(s, k) == k \in DOMAIN s

\* The Redis server drops a key when its TTL runs out.
RedisLive(s, t) == [x \in {k \in DOMAIN s : s[k].expires_at > t} |-> s[x]]

\* RedisCache.get: json.loads of the stored text, None when the key is absent
\* and None again when the client raises.
RedisGetReply(s, k, t, ok) ==
    IF ok /\ k \in DOMAIN RedisLive(s, t)
    THEN IF OwnJson(s[k].value) THEN ValueReply(json_loads(s[k].value))
         ELSE IF Unparsable(s[k].value) THEN NoneReply
         ELSE ForeignReply
    ELSE NoneReply

\* RedisCache.set: SETEX key ttl json.dumps(value); nothing stored when the
\* client raises.
RedisSetStore(s, k, v, ttl, t, ok) ==
    IF ok THEN With(RedisLive(s, t), k, Entry(json_dumps(v), t + ttl * TicksPerSec))
    ELSE s

\* RedisCache.delete
RedisDeleteStore(s, k, t, ok) ==
    IF ok /\ k \in DOMAIN RedisLive(s, t) THEN Without(s, k) ELSE s
RedisDeleteReply(s, k, t, ok) == ok /\ k \in DOMAIN RedisLive(s, t)

\* The expiry time of a key without a TTL: later than any TTL can reach.
Forever == MaxTime + 2 * MaxWindow * TicksPerSec + 1

\* RedisCache.increment: pipe.incr(key, amount); pipe.expire(key, ttl);
\* results = await pipe.execute().  The pipeline is one MULTI/EXEC unit on
\* the server; a client error leaves the key untouched and 0 is returned.
RedisIncrNew(s, k, amount, t) ==
    IF k \in DOMAIN RedisLive(s, t) THEN json_loads(s[k].value) + amount ELSE amount
PipelineResults(s, k, amount, t) == <<RedisIncrNew(s, k, amount, t), 1>>
\* INCR: a missing key is created without a TTL, a present one keeps its TTL.
RedisIncr(s, k, amount, t) ==
    With(RedisLive(s, t), k,
         Entry(json_dumps(RedisIncrNew(s, k, amount, t)),
               IF k \in DOMAIN RedisLive(s, t) THEN s[k].expires_at ELSE Forever))
\* EXPIRE
RedisExpire(s, k, ttl, t) ==
    IF k \in DOMAIN s THEN [s EXCEPT ![k].expires_at = t + ttl * TicksPerSec] ELSE s
\* the unit ends after INCR
ExecIncrOnly(s, k, amount, ttl, t) == RedisIncr(s, k, amount, t)
\* EXEC: the queued commands run one after the other, nothing in between
ExecPipeline(s, k, amount, ttl, t) == RedisExpire(RedisIncr(s, k, amount, t), k, ttl, t)
RedisIncrementStore(s, k, amount, ttl, t, ok) ==
    IF ok THEN ExecPipeline(s, k, amount, ttl, t) ELSE s
\* returns the reply of EXPIRE instead of the reply of INCR
SecondResult(results) == results[2]
FirstResult(results) == results[1]
RedisIncrementReply(s, k, amount, t, ok) ==
    IF ok THEN FirstResult(PipelineResults(s, k, amount, t)) ELSE 0

\* CacheService.increment_rate_limit, in-memory branch:
\* current = await self.get(cache_key) or 0; new_value = current + 1;
\* await self.set(cache_key, new_value, window); return new_value
OrZero(reply) == IF reply.kind = "value" /\ reply.value # 0 THEN reply.value ELSE 0
MemIncrementReply(s, k, t) == OrZero(MemGetReply(s, k, t)) + 1
MemIncrementStore(s, k, ttl, t) ==
    MemSetStore(MemGetStore(s, k, t), k, MemIncrementReply(s, k, t), ttl, t)

\* -------------------------------------------------------------- fixed window
RateLimitResult(allowed, remaining, reset_time, retry_after) ==
    [allowed |-> allowed, remaining |-> remaining,
     reset_time |-> reset_time, retry_after |-> retry_after]

\* window_start = (current_time // window) * window, current_time in seconds
FixedWindowStart(ct, rl) == (ct \div rl.window) * rl.window

FixedDenied(current_count, rl) == current_count >= rl.requests

FixedDenyResult(ct, rl) ==
    LET reset_time == FixedWindowStart(ct, rl) + rl.window
    IN  RateLimitResult(FALSE, 0, reset_time, Some(reset_time - ct))

\* operands of the subtraction swapped
FixedRemainingSwapped(rl, new_count) == Max(0, new_count - rl.requests)
FixedRemaining(rl, new_count) == Max(0, rl.requests - new_count)

FixedAllowResult(ct, rl, new_count) ==
    RateLimitResult(TRUE, FixedRemaining(rl, new_count),
                    FixedWindowStart(ct, rl) + rl.window, None)

\* ------------------------------------------------------------ sliding window
\* timestamps = await cache_service.get(timestamps_key) or []
OrEmpty(reply) == IF reply.kind = "value" THEN reply.value ELSE <<>>

\* [ts for ts in timestamps if ts > window_start], window_start = ct - window
IsRecent(ts, ct, rl) == ts > ct - rl.window
RecentTimestamps(timestamps, ct, rl) ==
    SelectSeq(timestamps, LAMBDA ts : IsRecent(ts, ct, rl))

\* admits a count equal to the limit
SlidingDeniedStrict(recent, rl) == Len(recent) > rl.requests
SlidingDenied(recent, rl) == Len(recent) >= rl.requests

\* the hint counts from the check instead of from the oldest timestamp
SlidingDenyResultFromNow(recent, ct, rl) ==
    RateLimitResult(FALSE, 0, ct + rl.window, Some(Max(1, rl.window)))
SlidingDenyResult(recent, ct, rl) ==
    LET oldest_timestamp == SeqMin(recent)
        retry_after == oldest_timestamp + rl.window - ct
    IN  RateLimitResult(FALSE, 0, oldest_timestamp + rl.window, Some(Max(1, retry_after)))

SlidingAllowResult(recent_timestamps, ct, rl) ==
    RateLimitResult(TRUE, rl.requests - Len(recent_timestamps), ct + rl.window, None)

\* -------------------------------------------------------------- token bucket
\* current_time = time.time() stays a clock reading in ticks.
Bucket(tokens, last_refill) == [tokens |-> tokens, last_refill |-> last_refill]

\* a missing bucket starts empty instead of full
OrDrainedBucket(reply, t, rl) ==
    IF reply.kind = "value" THEN reply.value ELSE Bucket(0, t)

\* bucket_data = await cache_service.get(bucket_key) or {tokens: requests,
\* last_refill: current_time}
OrFullBucket(reply, t, rl) ==
    IF reply.kind = "value" THEN reply.value ELSE Bucket(rl.requests, t)

\* int(time_elapsed * (requests / window)), time_elapsed in seconds
TokensToAdd(b, t, rl) == ((t - b.last_refill) * rl.requests) \div (rl.window * TicksPerSec)

\* max_tokens = rate_limit.burst or rate_limit.requests
MaxTokens(rl) == IF rl.burst # 0 THEN rl.burst ELSE rl.requests

\* the refill is not capped at max_tokens
RefillUncapped(b, t, rl) == Bucket(b.tokens + TokensToAdd(b, t, rl), t)
Refill(b, t, rl) == Bucket(Min(MaxTokens(rl), b.tokens + TokensToAdd(b, t, rl)), t)

TokenDenied(b) == b.tokens < 1

\* retry_after = int((1 - tokens) * (window / requests));
\* reset_time = int(current_time + retry_after)
TokenRetryAfter(b, rl) == ((1 - b.tokens) * rl.window) \div rl.requests
TokenDenyResult(b, t, rl) ==
    RateLimitResult(FALSE, 0, (t + TokenRetryAfter(b, rl) * TicksPerSec) \div TicksPerSec,
                    Some(TokenRetryAfter(b, rl)))

\* two tokens a request
ConsumeTwo(b) == Bucket(b.tokens - 2, b.last_refill)
Consume(b) == Bucket(b.tokens - 1, b.last_refill)

\* remaining = int(tokens), reset_time = int(current_time + window)
TokenAllowResult(b, t, rl) ==
    RateLimitResult(TRUE, b.tokens, (t + rl.window * TicksPerSec) \div TicksPerSec, None)

\* ===================================================================== state
VARIABLES
    backend,         \* CacheService.current_cache: "redis" or "memory"
    default_limits,  \* RateLimiter.default_limits
    premium_limits,  \* RateLimiter.premium_limits
    now,             \* the clock, in ticks
    store,           \* the active cache: key -> [value, expires_at]
    pc,              \* per task: "idle", "get", "write", "done", "raised"
    loc,             \* per task: the locals of the check in flight
    result,          \* per task: the RateLimitResult returned
    obs,             \* per task: what the history said when the check returned
    hist,            \* per (limit_type, identifier): the history of its checks
    everFailed,      \* a store operation has raised
    nchecks,         \* checks started
    scen,            \* the drain / wait / burst scenario of a token bucket
    env,             \* what CacheService.initialize finds at startup
    ret,             \* the last CacheService call and what it returned
    twin,            \* an InMemoryCache given the same calls and never swept
    gate             \* the request at the gatekeeper and what became of it

vars == <<backend, default_limits, premium_limits, now, store, pc, loc, result,
          obs, hist, everFailed, nchecks, scen, env, ret, twin, gate>>

\* What the rate limiter's own steps leave alone.
storeAux == <<env, ret, twin, gate>>
aux == <<scen, env, ret, twin, gate>>

Tasks == 1..NumTasks
Pairs == LimitTypes \X Identifiers

IdleLoc == [identifier |-> <<>>, limit_type |-> "", rl |-> RateLimit(1, 1, "fixed_window", 0),
            t |-> 0, got |-> NoneReply, failed |-> FALSE, getFailed |-> FALSE,
            afterReset |-> FALSE, is_premium |-> FALSE, gotMalformed |-> FALSE]
NoResult == RateLimitResult(TRUE, 0, 0, None)
NoObs == [prior |-> <<>>, prev |-> None, count |-> 0, writeFailed |-> FALSE,
          incremented |-> FALSE]
\* admitted: whole-second times of the allowed checks, oldest first;
\* prev: the last returned check since the last reset, if any;
\* resetPending: reset_rate_limit ran and no check has started since.
NoHist == [admitted |-> <<>>, prev |-> None, resetPending |-> FALSE]

\* phase: "fill" until a check is denied, "drained" from the denial to the
\* next clock tick, "wait" while only the clock moves, "burst" from the
\* first check after the wait to the next denial.  deniedAt: clock of the
\* denial; lastAllowed: clock of the last allowed check (-1: none); waited:
\* ticks from the denial to the burst; idle: ticks from the last allowed
\* check to the burst; admitted: checks allowed in the burst.  ideal: the
\* tokens of a bucket that starts full, gains limit / window tokens a second
\* up to its capacity and gives one token to every allowed check, in units
\* of 1 / (window * TicksPerSec) token (-1: still full, no check yet);
\* tracked up to the first denial, where it is kept.
NoScen == [phase |-> "fill", checks |-> 0, deniedAt |-> 0, lastAllowed |-> -1,
           waited |-> 0, idle |-> 0, admitted |-> 0, ideal |-> -1, tracked |-> TRUE,
           hint |-> 0, retry |-> "none"]

\* A bool or an int a CacheService call returns.
BoolReply(b) == [kind |-> "bool", value |-> b]
IntReply(n) == [kind |-> "int", value |-> n]

\* op: the call; at: the clock of the call; reply / twinReply: what the
\* active cache and the twin returned; raised: the exception that left the
\* call ("ok": none); servedBy: the implementation that served it; held:
\* the twin still held an entry under the key when the call came.
NoRet == [op |-> "none", key |-> <<>>, at |-> 0, reply |-> NoneReply,
          twinReply |-> NoneReply, raised |-> "ok", servedBy |-> "none", held |-> FALSE]

\* via: "dependency", "decorator" or "middleware"; verdict: what
\* check_rate_limit returned ("none": no check has returned); response /
\* headers: the rejection produced; raised: the exception that left the
\* gatekeeper instead; handler: how often the wrapped handler (the
\* downstream app) was invoked for the request; sendFailed: sending the
\* rejection raised; n: requests so far.
NoGate == [via |-> "none", limit_type |-> "", request |-> <<>>, user_id |-> <<>>,
           identifier |-> <<>>, status |-> "idle",
           verdict |-> "none", retry_after |-> None, response |-> "none", headers |-> <<>>,
           raised |-> "ok", handler |-> 0, sendFailed |-> FALSE, n |-> 0,
           scope |-> "http", path |-> ""]

\* The service is up: initialize has chosen the backend, no call yet.
ServiceUp ==
    /\ env = [lib |-> backend = "redis", url |-> backend = "redis", ping |-> backend = "redis"]
    /\ ret = NoRet
    /\ twin = <<>>
    /\ gate = NoGate

InitWith(policies) ==
    /\ backend \in {"redis", "memory"}
    /\ \E rl \in policies :
          /\ default_limits = [c \in TableClasses |-> rl]
          /\ premium_limits = [c \in TableClasses |-> rl]
    /\ store = <<>>
    /\ pc = [p \in Tasks |-> "idle"]
    /\ loc = [p \in Tasks |-> IdleLoc]
    /\ result = [p \in Tasks |-> NoResult]
    /\ obs = [p \in Tasks |-> NoObs]
    /\ hist = [pr \in Pairs |-> NoHist]
    /\ everFailed = FALSE
    /\ nchecks = 0
    /\ now = 0
    /\ scen = NoScen
    /\ ServiceUp

Init == InitWith(RateLimits)
\* The clock stands still while the concurrent checks run, so the window
\* only sets the TTLs: one window length is enough.
InitConc == InitWith({rl \in RateLimits : rl.window = MaxWindow})

\* Whether an await on the cache hands control to the event loop.
Suspends == backend = "redis"

\* A Redis round trip may raise; the in-process store cannot.
Outcomes == IF backend = "redis" THEN {TRUE, FALSE} ELSE {TRUE}
NoteFailure(ok) == everFailed' = (everFailed \/ ~ok)

InFlight(p) == pc[p] \in {"get", "write"}

\* CacheService.get / set on the active backend.
CacheGetReply(k, ok) ==
    IF backend = "redis" THEN RedisGetReply(store, k, now, ok) ELSE MemGetReply(store, k, now)
CacheGetStore(k) ==
    IF backend = "redis" THEN store ELSE MemGetStore(store, k, now)
CacheSetStore(k, v, ttl, ok) ==
    IF backend = "redis" THEN RedisSetStore(store, k, v, ttl, now, ok)
    ELSE MemSetStore(store, k, v, ttl, now)

\* CacheService.increment_rate_limit(identifier, window)
IncrementReply(identifier, ok) ==
    IF backend = "redis"
    THEN RedisIncrementReply(store, rate_limit_key(identifier), 1, now, ok)
    ELSE MemIncrementReply(store, rate_limit_key(identifier), now)
IncrementStore(identifier, window, ok) ==
    IF backend = "redis"
    THEN RedisIncrementStore(store, rate_limit_key(identifier), 1, window, now, ok)
    ELSE MemIncrementStore(store, rate_limit_key(identifier), window, now)

\* The key a check reads, by strategy.
CheckKey(l) ==
    LET ck == cache_key(l.limit_type, l.identifier)
    IN  CASE l.rl.strategy = "sliding_window" -> timestamps_key(ck)
          [] l.rl.strategy = "token_bucket" -> bucket_key(ck)
          [] OTHER -> window_key(ck, FixedWindowStart(IntSeconds(l.t), l.rl))

\* check_rate_limit up to its first await: the policy lookup, the key and
\* the clock reading.
BeginCheck(p, identifier, limit_type, is_premium) ==
    /\ pc' = [pc EXCEPT ![p] = "get"]
    /\ loc' = [loc EXCEPT ![p] =
                 [identifier |-> identifier, limit_type |-> limit_type,
                  rl |-> LookupRateLimit(default_limits, premium_limits, limit_type, is_premium),
                  t |-> now, got |-> NoneReply, failed |-> FALSE, getFailed |-> FALSE,
                  afterReset |-> hist[<<limit_type, identifier>>].resetPending,
                  is_premium |-> is_premium, gotMalformed |-> FALSE]]
    /\ hist' = [hist EXCEPT ![<<limit_type, identifier>>].resetPending = FALSE]
    /\ result' = [result EXCEPT ![p] = NoResult]
    /\ obs' = [obs EXCEPT ![p] = NoObs]
    /\ UNCHANGED <<backend, default_limits, premium_limits, now, store, everFailed>>

Begin(p, identifier, limit_type, is_premium) ==
    /\ nchecks < MaxChecks
    /\ nchecks' = nchecks + 1
    /\ BeginCheck(p, identifier, limit_type, is_premium)

\* One caller, one check after another.
StartSeq ==
    /\ pc[1] \in {"idle", "done"}
    /\ \E i \in Identifiers, c \in LimitTypes, prem \in PremiumInputs : Begin(1, i, c, prem)

\* A new request arrives while others are in flight; with the in-process
\* store the running check never yields, so none is in flight then.  The
\* tasks are alike, so they are numbered in the order they start.
StartConc(p) ==
    /\ pc[p] = "idle"
    /\ \A q \in Tasks : q < p => pc[q] # "idle"
    /\ Suspends \/ \A q \in Tasks : ~InFlight(q)
    /\ \E i \in Identifiers, c \in LimitTypes, prem \in PremiumInputs : Begin(p, i, c, prem)

\* The store after the read of a check.  InMemoryCache.get hands out the
\* stored object itself, and _check_token_bucket refills bucket_data in
\* place (tokens, last_refill) before it decides: with the in-process store
\* the stored bucket is refilled by the read, whatever the verdict.
MemAliasStore(s, k, v) == IF k \in DOMAIN s THEN [s EXCEPT ![k].value = v] ELSE s
CheckGetStore(l, k, reply) ==
    IF backend = "memory" /\ l.rl.strategy = "token_bucket" /\ reply.kind = "value"
    THEN MemAliasStore(CacheGetStore(k), k, Refill(reply.value, l.t, l.rl))
    ELSE CacheGetStore(k)

\* The read found a text the limiter did not write.
Malformed(k, ok) ==
    /\ backend = "redis" /\ ok
    /\ k \in DOMAIN RedisLive(store, now)
    /\ ~OwnJson(store[k].value)

\* The check raises on what it read: current_count >= requests with a dict
\* is a TypeError, ts > window_start with the keys of a dict is a TypeError,
\* bucket_data["last_refill"] is a KeyError.  Nothing in check_rate_limit
\* catches it.
Raises(l, reply) == reply.kind = "foreign"

\* What a check decides once its read is back: deny at once (with the
\* result), or go on to the write.  count is what the check counted.
Decision(l, reply) ==
    LET ct == IntSeconds(l.t)
        rl == l.rl
    IN  CASE rl.strategy = "sliding_window" ->
               LET recent == RecentTimestamps(OrEmpty(reply), ct, rl)
               IN  [deny |-> SlidingDenied(recent, rl),
                    result |-> IF SlidingDenied(recent, rl)
                               THEN SlidingDenyResult(recent, ct, rl) ELSE NoResult,
                    count |-> Len(recent),
                    oldest |-> IF recent = <<>> THEN ct ELSE SeqMin(recent)]
          [] rl.strategy = "token_bucket" ->
               LET b == Refill(OrFullBucket(reply, l.t, rl), l.t, rl)
               IN  [deny |-> TokenDenied(b),
                    result |-> IF TokenDenied(b) THEN TokenDenyResult(b, l.t, rl) ELSE NoResult,
                    count |-> b.tokens,
                    oldest |-> ct]
          [] OTHER ->
               [deny |-> FixedDenied(OrZero(reply), rl),
                result |-> IF FixedDenied(OrZero(reply), rl)
                           THEN FixedDenyResult(ct, rl) ELSE NoResult,
                count |-> OrZero(reply),
                oldest |-> ct]

\* The check returns res: the result, the history as it stood, and the
\* history with this check added.
Finish(p, res, count, oldest, writeFailed, incremented) ==
    LET l == loc[p]
        pr == <<l.limit_type, l.identifier>>
        ct == IntSeconds(l.t)
    IN  /\ pc' = [pc EXCEPT ![p] = "done"]
        /\ result' = [result EXCEPT ![p] = res]
        /\ obs' = [obs EXCEPT ![p] =
                     [prior |-> hist[pr].admitted, prev |-> hist[pr].prev, count |-> count,
                      writeFailed |-> writeFailed, incremented |-> incremented]]
        /\ hist' = [hist EXCEPT ![pr] =
                      [admitted |-> IF res.allowed THEN Append(@.admitted, ct) ELSE @.admitted,
                       prev |-> Some([remaining |-> res.remaining, ct |-> ct,
                                      oldest |-> oldest]),
                       resetPending |-> @.resetPending]]

\* The read of the check comes back (current_count / timestamps /
\* bucket_data) and the check runs on to its next await or to its return.
GetReply(p) ==
    /\ pc[p] = "get"
    /\ \E ok \in Outcomes :
         LET l == loc[p]
             k == CheckKey(l)
             reply == CacheGetReply(k, ok)
             d == Decision(l, reply)
         IN  /\ store' = CheckGetStore(l, k, reply)
             /\ NoteFailure(ok)
             /\ loc' = [loc EXCEPT ![p].got = reply, ![p].failed = ~ok, ![p].getFailed = ~ok,
                                   ![p].gotMalformed = Malformed(k, ok)]
             /\ IF Raises(l, reply)
                THEN /\ pc' = [pc EXCEPT ![p] = "raised"]
                     /\ UNCHANGED <<result, obs, hist>>
                ELSE IF d.deny
                THEN Finish(p, d.result, d.count, d.oldest, FALSE, FALSE)
                ELSE /\ pc' = [pc EXCEPT ![p] = "write"]
                     /\ UNCHANGED <<result, obs, hist>>
    /\ UNCHANGED <<backend, default_limits, premium_limits, now, nchecks>>

\* The write of an admitted check comes back (increment_rate_limit, or set
\* of the timestamps / the bucket) and the check returns allowed.
WriteReply(p) ==
    /\ pc[p] = "write"
    /\ \E ok \in Outcomes :
         LET l == loc[p]
             rl == l.rl
             ct == IntSeconds(l.t)
             k == CheckKey(l)
         IN  /\ NoteFailure(ok)
             /\ loc' = [loc EXCEPT ![p].failed = (@ \/ ~ok)]
             /\ CASE rl.strategy = "sliding_window" ->
                      LET recent_timestamps ==
                              Append(RecentTimestamps(OrEmpty(l.got), ct, rl), ct)
                      IN  /\ store' = CacheSetStore(k, recent_timestamps, rl.window, ok)
                          /\ Finish(p, SlidingAllowResult(recent_timestamps, ct, rl),
                                    Len(recent_timestamps), SeqMin(recent_timestamps),
                                    ~ok, FALSE)
                  [] rl.strategy = "token_bucket" ->
                      LET b == Consume(Refill(OrFullBucket(l.got, l.t, rl), l.t, rl))
                      IN  /\ store' = CacheSetStore(k, b, rl.window * 2, ok)
                          /\ Finish(p, TokenAllowResult(b, l.t, rl), b.tokens, ct, ~ok, FALSE)
                  [] OTHER ->
                      LET new_count == IncrementReply(k, ok)
                      IN  /\ store' = IncrementStore(k, rl.window, ok)
                          /\ Finish(p, FixedAllowResult(ct, rl, new_count), new_count, ct,
                                    ~ok, TRUE)
    /\ UNCHANGED <<backend, default_limits, premium_limits, now, nchecks>>

\* The callers have taken their results: no check is in progress.
AllReturned ==
    /\ pc' = [p \in Tasks |-> "idle"]
    /\ loc' = [p \in Tasks |-> IdleLoc]
    /\ result' = [p \in Tasks |-> NoResult]
    /\ obs' = [p \in Tasks |-> NoObs]

\* reset_rate_limit(identifier, limit_type): cache_service.delete(cache_key)
Reset(identifier, limit_type) ==
    /\ \A p \in Tasks : ~InFlight(p)
    /\ \E ok \in Outcomes :
         LET k == cache_key(limit_type, identifier)
         IN  /\ NoteFailure(ok)
             /\ store' = IF backend = "redis" THEN RedisDeleteStore(store, k, now, ok)
                         ELSE MemDeleteStore(store, k)
    /\ hist' = [hist EXCEPT ![<<limit_type, identifier>>] =
                  [admitted |-> @.admitted, prev |-> None, resetPending |-> TRUE]]
    /\ AllReturned
    /\ UNCHANGED <<backend, default_limits, premium_limits, now, nchecks>>

\* Time passes between checks; the Redis server expires its keys.
Tick ==
    /\ \A p \in Tasks : ~InFlight(p)
    /\ now < MaxTime
    /\ now' = now + 1
    /\ store' = IF backend = "redis" THEN RedisLive(store, now + 1) ELSE store
    /\ AllReturned
    /\ UNCHANGED <<backend, default_limits, premium_limits, hist, everFailed, nchecks>>

Next ==
    \/ StartSeq /\ UNCHANGED aux
    \/ \E p \in Tasks : GetReply(p) /\ UNCHANGED aux
    \/ \E p \in Tasks : WriteReply(p) /\ UNCHANGED aux
    \/ \E i \in Identifiers, c \in LimitTypes : Reset(i, c) /\ UNCHANGED aux
    \/ Tick /\ UNCHANGED aux

Spec == Init /\ [][Next]_vars

NextConc ==
    \/ \E p \in Tasks : StartConc(p) /\ UNCHANGED aux
    \/ \E p \in Tasks : GetReply(p) /\ UNCHANGED aux
    \/ \E p \in Tasks : WriteReply(p) /\ UNCHANGED aux

SpecConc == InitConc /\ [][NextConc]_vars

\* ------------------------------------------------- fixed window, window after window
\* One caller under a fixed-window policy, the clock moving, no reset.
FixedPolicies == {rl \in RateLimits : rl.strategy = "fixed_window"}
InitFixed == InitWith(FixedPolicies)

NextFixed ==
    \/ StartSeq /\ UNCHANGED aux
    \/ GetReply(1) /\ UNCHANGED aux
    \/ WriteReply(1) /\ UNCHANGED aux
    \/ Tick /\ UNCHANGED aux

SpecFixed == InitFixed /\ [][NextFixed]_vars

\* --------------------------------------- sliding window, concurrent callers and time
\* Requests arrive while others are in flight, and the clock moves between
\* the bursts.
SlidingPolicies == {rl \in RateLimits : rl.strategy = "sliding_window"}
InitSlide == InitWith(SlidingPolicies)

\* as StartConc, a burst of the same caller
StartSlide(p) ==
    /\ pc[p] = "idle"
    /\ \A q \in Tasks : q < p => pc[q] # "idle"
    /\ Suspends \/ \A q \in Tasks : ~InFlight(q)
    /\ nchecks < MaxSlideChecks
    /\ nchecks' = nchecks + 1
    /\ \E i \in Identifiers, c \in LimitTypes, prem \in PremiumInputs : BeginCheck(p, i, c, prem)

NextSlide ==
    \/ \E p \in Tasks : StartSlide(p) /\ UNCHANGED aux
    \/ \E p \in Tasks : GetReply(p) /\ UNCHANGED aux
    \/ \E p \in Tasks : WriteReply(p) /\ UNCHANGED aux
    \/ Tick /\ UNCHANGED aux

SpecSlide == InitSlide /\ [][NextSlide]_vars

\* ------------------------------------------------ token bucket: drain, wait, burst
TokenPolicies == {rl \in RateLimits : rl.strategy = "token_bucket"}
InitToken == InitWith(TokenPolicies)

\* The scenario after a check that read the clock at t returned res.
ScenAfter(s, res, t) ==
    IF res.allowed
    THEN CASE s.phase = "wait" ->
                [s EXCEPT !.phase = "burst", !.waited = t - s.deniedAt,
                          !.idle = t - s.lastAllowed, !.admitted = 1, !.lastAllowed = t]
           [] s.phase = "burst" ->
                [s EXCEPT !.admitted = @ + 1, !.lastAllowed = t]
           [] OTHER ->
                [s EXCEPT !.phase = "fill", !.waited = 0, !.idle = 0, !.admitted = 0,
                          !.lastAllowed = t]
    ELSE CASE s.phase = "wait" ->
                [s EXCEPT !.phase = "drained", !.waited = t - s.deniedAt,
                          !.idle = t - s.lastAllowed, !.admitted = 0, !.deniedAt = t]
           [] s.phase = "burst" ->
                [s EXCEPT !.phase = "drained", !.deniedAt = t]
           [] s.phase = "drained" -> s
           [] OTHER ->
                [s EXCEPT !.phase = "drained", !.waited = 0, !.idle = 0, !.admitted = 0,
                          !.deniedAt = t]

\* The caller checks again (rate_limit_dependency on the next request).
StartToken ==
    /\ pc[1] \in {"idle", "done"}
    /\ scen.checks < MaxTokenChecks
    /\ \E i \in Identifiers, c \in LimitTypes, prem \in PremiumInputs : BeginCheck(1, i, c, prem)
    /\ scen' = [scen EXCEPT !.checks = @ + 1]
    /\ UNCHANGED <<nchecks, storeAux>>

\* A step of the check; the scenario moves on when the check returns.
TokenStep ==
    /\ GetReply(1) \/ WriteReply(1)
    /\ scen' = IF pc'[1] = "done" THEN ScenAfter(scen, result'[1], loc[1].t) ELSE scen
    /\ UNCHANGED storeAux

\* The clock moves while no check runs; a burst is made of checks without
\* delay, so the clock stands still until the burst has ended.
TokenWait ==
    /\ scen.phase # "burst"
    /\ Tick
    /\ scen' = IF scen.phase = "drained"
               THEN [scen EXCEPT !.phase = "wait", !.waited = 0, !.idle = 0, !.admitted = 0]
               ELSE scen
    /\ UNCHANGED storeAux

NextToken ==
    \/ StartToken
    \/ TokenStep
    \/ TokenWait

SpecToken == InitToken /\ [][NextToken]_vars

\* ------------------------------------------- token bucket: allowed checks in a row
\* The bucket without rounding: one token, the full bucket, the tokens held,
\* after a check and after a tick of the clock.
IdealUnit == default_limits["upload"].window * TicksPerSec
IdealFull == MaxTokens(default_limits["upload"]) * IdealUnit
IdealTokens(s) == IF s.ideal < 0 THEN IdealFull ELSE s.ideal
IdealConsume(s, res) ==
    IF ~s.tracked THEN s
    ELSE IF res.allowed THEN [s EXCEPT !.ideal = IdealTokens(s) - IdealUnit]
    ELSE [s EXCEPT !.ideal = IdealTokens(s), !.tracked = FALSE]
IdealRefill(s) ==
    IF ~s.tracked \/ s.ideal < 0 THEN s
    ELSE [s EXCEPT !.ideal = Min(IdealFull, @ + default_limits["upload"].requests)]

\* Policies whose fresh bucket (limit tokens) is a full one.
RefillPolicies == {rl \in TokenPolicies : MaxTokens(rl) <= rl.requests}
InitRefill == InitWith(RefillPolicies)

\* The caller checks again, until a check is denied.
StartRefill ==
    /\ pc[1] \in {"idle", "done"}
    /\ scen.tracked
    /\ scen.checks < MaxTokenChecks
    /\ \E i \in Identifiers, c \in LimitTypes, prem \in PremiumInputs : BeginCheck(1, i, c, prem)
    /\ scen' = [scen EXCEPT !.checks = @ + 1]
    /\ UNCHANGED <<nchecks, storeAux>>

RefillStep ==
    /\ GetReply(1) \/ WriteReply(1)
    /\ scen' = IF pc'[1] = "done" THEN IdealConsume(scen, result'[1]) ELSE scen
    /\ UNCHANGED storeAux

RefillWait ==
    /\ scen.tracked
    /\ Tick
    /\ scen' = IdealRefill(scen)
    /\ UNCHANGED storeAux

NextRefill ==
    \/ StartRefill
    \/ RefillStep
    \/ RefillWait

SpecRefill == InitRefill /\ [][NextRefill]_vars

\* ------------------------------------------------- the client that takes the hint
\* A caller that was denied waits retry_after seconds and checks again.
\* phase "denied": the last check was denied at deniedAt with retry_after =
\* hint; retry: what the check made exactly hint seconds after that denial
\* returned ("none": the last check was no such check).
RetryDue(s, t) == s.phase = "denied" /\ t = s.deniedAt + s.hint * TicksPerSec
RetryAfter(s, res, t) ==
    LET outcome == IF ~RetryDue(s, t) THEN "none"
                   ELSE IF res.allowed THEN "allowed" ELSE "denied"
    IN  IF res.allowed \/ res.retry_after = None
        THEN [s EXCEPT !.phase = "fill", !.retry = outcome]
        ELSE [s EXCEPT !.phase = "denied", !.deniedAt = t, !.hint = res.retry_after[1],
                       !.retry = outcome]

RetryStart ==
    /\ pc[1] \in {"idle", "done"}
    /\ scen.phase = "denied" => RetryDue(scen, now)
    /\ \E i \in Identifiers, c \in LimitTypes, prem \in PremiumInputs : Begin(1, i, c, prem)
    /\ UNCHANGED aux

RetryStep ==
    /\ GetReply(1) \/ WriteReply(1)
    /\ scen' = IF pc'[1] = "done" THEN RetryAfter(scen, result'[1], loc[1].t) ELSE scen
    /\ UNCHANGED storeAux

RetryWait ==
    /\ Tick
    /\ UNCHANGED aux

NextRetry ==
    \/ RetryStart
    \/ RetryStep
    \/ RetryWait

SpecRetry == Init /\ [][NextRetry]_vars

\* ----------------------------------------------------- the service's own tables
\* The service as constructed: both tiers, every class a caller may name.
\* The windows (300 s, 3600 s) dwarf the clock of the model, so it stands.
InitPolicy ==
    /\ backend \in {"redis", "memory"}
    /\ default_limits = DefaultLimitsTable
    /\ premium_limits = PremiumLimitsTable
    /\ store = <<>>
    /\ pc = [p \in Tasks |-> "idle"]
    /\ loc = [p \in Tasks |-> IdleLoc]
    /\ result = [p \in Tasks |-> NoResult]
    /\ obs = [p \in Tasks |-> NoObs]
    /\ hist = [pr \in PolicyClasses \X Identifiers |-> NoHist]
    /\ everFailed = FALSE
    /\ nchecks = 0
    /\ now = 0
    /\ scen = NoScen
    /\ ServiceUp

\* check_rate_limit(identifier, limit_type, is_premium) for either tier
StartPolicy ==
    /\ pc[1] \in {"idle", "done"}
    /\ nchecks < MaxPolicyChecks
    /\ nchecks' = nchecks + 1
    /\ \E i \in Identifiers, c \in PolicyClasses, prem \in BOOLEAN : BeginCheck(1, i, c, prem)

NextPolicy ==
    \/ StartPolicy /\ UNCHANGED aux
    \/ GetReply(1) /\ UNCHANGED aux
    \/ WriteReply(1) /\ UNCHANGED aux

SpecPolicy == InitPolicy /\ [][NextPolicy]_vars

\* ------------------------------------------------------ several callers' quotas
\* get_identifier_from_request: "ip:" + the first address of X-Forwarded-For,
\* a header the client writes; the second caller sends
\* "X-Forwarded-For: 10.0.0.1:timestamps".
PairIdentifiers == {<<"ip", "10.0.0.1">>, <<"ip", "10.0.0.1", "timestamps">>}
PairClasses == {"upload", "ai_query"}

\* The clock stands still: nothing expires while the calls are compared.
InitPairs ==
    /\ backend \in {"redis", "memory"}
    /\ \E rl \in {r \in RateLimits : r.window = MaxWindow} :
          /\ default_limits = [c \in TableClasses |-> rl]
          /\ premium_limits = [c \in TableClasses |-> rl]
    /\ store = <<>>
    /\ pc = [p \in Tasks |-> "idle"]
    /\ loc = [p \in Tasks |-> IdleLoc]
    /\ result = [p \in Tasks |-> NoResult]
    /\ obs = [p \in Tasks |-> NoObs]
    /\ hist = [pr \in PairClasses \X PairIdentifiers |-> NoHist]
    /\ everFailed = FALSE
    /\ nchecks = 0
    /\ now = 0
    /\ scen = NoScen
    /\ ServiceUp

StartPairs ==
    /\ pc[1] \in {"idle", "done"}
    /\ nchecks < MaxPairChecks
    /\ nchecks' = nchecks + 1
    /\ \E i \in PairIdentifiers, c \in PairClasses, prem \in PremiumInputs :
          BeginCheck(1, i, c, prem)

NextPairs ==
    \/ StartPairs /\ UNCHANGED aux
    \/ GetReply(1) /\ UNCHANGED aux
    \/ WriteReply(1) /\ UNCHANGED aux
    \/ \E i \in PairIdentifiers, c \in PairClasses : Reset(i, c) /\ UNCHANGED aux

SpecPairs == InitPairs /\ [][NextPairs]_vars

\* The counter the active cache holds under k.
StoredCounter(k) ==
    IF k \notin DOMAIN store THEN 0
    ELSE IF backend = "redis" THEN json_loads(store[k].value) ELSE store[k].value

\* ------------------------------------------------- state the limiter did not write
\* The Redis server is shared: another client leaves a text under the key
\* the next check of (limit_type, identifier) reads, without a TTL.
ReadKey(limit_type, identifier) ==
    CheckKey([IdleLoc EXCEPT !.limit_type = limit_type, !.identifier = identifier,
                             !.rl = LookupRateLimit(default_limits, premium_limits,
                                                    limit_type, FALSE),
                             !.t = now])
ForeignWrite(limit_type, identifier, text) ==
    /\ backend = "redis"
    /\ \A p \in Tasks : ~InFlight(p)
    /\ store' = With(RedisLive(store, now), ReadKey(limit_type, identifier),
                     Entry(text, Forever))
    /\ AllReturned
    /\ UNCHANGED <<backend, default_limits, premium_limits, now, hist, everFailed, nchecks>>

StartMalformed ==
    /\ pc[1] \in {"idle", "done", "raised"}
    /\ \E i \in Identifiers, c \in LimitTypes, prem \in PremiumInputs : Begin(1, i, c, prem)

NextMalformed ==
    \/ StartMalformed /\ UNCHANGED aux
    \/ GetReply(1) /\ UNCHANGED aux
    \/ WriteReply(1) /\ UNCHANGED aux
    \/ \E i \in Identifiers, c \in LimitTypes, text \in ForeignTexts :
          ForeignWrite(c, i, text) /\ UNCHANGED aux

SpecMalformed == Init /\ [][NextMalformed]_vars

\* ============================================================== the gatekeeper
\* A header value is the sequence of its ','-separated parts (what
\* split(',') returns), a part or an address the sequence of its
\* ':'-separated fields, with Blank for a blank at either end.
Blank == " "

\* str.strip()
RECURSIVE LStrip(_)
LStrip(part) == IF part # <<>> /\ Head(part) = Blank THEN LStrip(Tail(part)) ELSE part
RECURSIVE RStrip(_)
RStrip(part) ==
    IF part # <<>> /\ part[Len(part)] = Blank
    THEN RStrip(SubSeq(part, 1, Len(part) - 1)) ELSE part
\* the blanks are kept
KeepBlanks(part) == part
Strip(part) == RStrip(LStrip(part))

\* request.headers.get("X-Forwarded-For"), request.headers.get("X-Real-IP"),
\* request.client.host if request.client: each None or a value.
Request(forwarded_for, real_ip, client) ==
    [forwarded_for |-> forwarded_for, real_ip |-> real_ip, client |-> client]

\* "if user_id:", "if forwarded_for:", "if real_ip:": None and the empty
\* string are false (the empty header splits into one empty part).
TruthyStr(opt) == opt # None /\ opt[1] # ""
TruthyHeader(opt) == opt # None /\ opt[1] # <<<<>>>>
TruthyAddr(opt) == opt # None /\ opt[1] # <<>>

\* RateLimiter.get_identifier_from_request
get_identifier_from_request(request, user_id) ==
    IF TruthyStr(user_id) THEN <<"user", user_id[1]>>
    ELSE IF TruthyHeader(request.forwarded_for)
    THEN <<"ip">> \o Strip(request.forwarded_for[1][1])
    ELSE IF TruthyAddr(request.real_ip) THEN <<"ip">> \o request.real_ip[1]
    ELSE <<"ip">> \o (IF request.client # None THEN request.client[1] ELSE <<"unknown">>)

\* ------------------------------------------------ identifiers of many requests
IdentForwarded ==
    {None,
     Some(<<<<"10.0.0.1">>>>),
     Some(<<<<"10.0.0.1">>, <<Blank, "10.0.0.2">>>>),
     Some(<<<<Blank, "10.0.0.2", Blank>>, <<"10.0.0.1">>>>),
     Some(<<<<"10.0.0.1", "timestamps">>>>)}
IdentRealIPs == {None, Some(<<"10.0.0.3">>), Some(<<"10.0.0.1">>)}
IdentClients == {None, Some(<<"10.0.0.4">>), Some(<<"10.0.0.1">>)}
IdentRequests ==
    {Request(f, r, c) : f \in IdentForwarded, r \in IdentRealIPs, c \in IdentClients}
\* no user, a user, and a user whose id reads like an address
IdentUserIds == {None, Some("alice"), Some("10.0.0.1")}

InitIdent ==
    /\ backend = "memory"
    /\ default_limits = DefaultLimitsTable
    /\ premium_limits = PremiumLimitsTable
    /\ store = <<>>
    /\ pc = [p \in Tasks |-> "idle"]
    /\ loc = [p \in Tasks |-> IdleLoc]
    /\ result = [p \in Tasks |-> NoResult]
    /\ obs = [p \in Tasks |-> NoObs]
    /\ hist = [pr \in Pairs |-> NoHist]
    /\ everFailed = FALSE
    /\ nchecks = 0
    /\ now = 0
    /\ scen = NoScen
    /\ env = [lib |-> FALSE, url |-> FALSE, ping |-> FALSE]
    /\ ret = NoRet
    /\ twin = <<>>
    /\ \E r \in IdentRequests, u \in IdentUserIds :
          gate = [NoGate EXCEPT !.request = r, !.user_id = u]

\* identifier = rate_limiter.get_identifier_from_request(request, user_id)
DeriveIdentifier ==
    /\ gate.status = "idle"
    /\ gate' = [gate EXCEPT !.status = "derived",
                            !.identifier = get_identifier_from_request(gate.request,
                                                                       gate.user_id)]
    /\ UNCHANGED <<backend, default_limits, premium_limits, now, store, pc, loc, result,
                   obs, hist, everFailed, nchecks, scen, env, ret, twin>>

NextIdent == DeriveIdentifier

SpecIdent == InitIdent /\ [][NextIdent]_vars

\* ----------------------------------------------- requests through the gatekeeper
\* A signed-in caller and an anonymous one behind a proxy.
GateCallers ==
    {[request |-> Request(None, None, Some(<<"10.0.0.4">>)), user_id |-> Some("alice")],
     [request |-> Request(Some(<<<<"10.0.0.1">>, <<Blank, "10.0.0.4">>>>), None,
                          Some(<<"10.0.0.4">>)),
      user_id |-> None]}
GateIdentifiers ==
    UNION {{get_identifier_from_request(c.request, c.user_id),
            get_identifier_from_request(c.request, None)} : c \in GateCallers}
\* the class of a route, one the tables lack, and the middleware's
GateClasses == {"upload", UnknownClass}
MiddlewareClass == "global"

\* The policies MaxRequests requests can use up.
GatePolicies == {rl \in RateLimits : MaxTokens(rl) < MaxRequests}

InitGate ==
    /\ backend \in {"redis", "memory"}
    /\ \E rl \in GatePolicies :
          /\ default_limits = [c \in TableClasses |-> rl]
          /\ premium_limits = [c \in TableClasses |-> rl]
    /\ store = <<>>
    /\ pc = [p \in Tasks |-> "idle"]
    /\ loc = [p \in Tasks |-> IdleLoc]
    /\ result = [p \in Tasks |-> NoResult]
    /\ obs = [p \in Tasks |-> NoObs]
    /\ hist = [pr \in (GateClasses \cup {MiddlewareClass}) \X GateIdentifiers |-> NoHist]
    /\ everFailed = FALSE
    /\ nchecks = 0
    /\ now = 0
    /\ scen = NoScen
    /\ ServiceUp

\* str(n)
str(n) == ToString(n)
\* "if result.retry_after": None and 0 are false
TruthyInt(opt) == opt # None /\ opt[1] # 0

\* rate_limit_dependency: the headers of the HTTPException; limit is
\* rate_limiter.default_limits[limit_type].requests.
DependencyHeaders(res, limit) ==
    [h \in {"X-RateLimit-Limit", "X-RateLimit-Remaining", "X-RateLimit-Reset"}
            \cup (IF TruthyInt(res.retry_after) THEN {"Retry-After"} ELSE {}) |->
        CASE h = "X-RateLimit-Limit" -> str(limit)
          [] h = "X-RateLimit-Remaining" -> str(res.remaining)
          [] h = "X-RateLimit-Reset" -> str(res.reset_time)
          [] OTHER -> str(res.retry_after[1])]

\* RateLimitMiddleware: the headers of the JSONResponse
MiddlewareHeaders(res) ==
    [h \in {"X-RateLimit-Limit", "X-RateLimit-Remaining", "X-RateLimit-Reset", "Retry-After"} |->
        CASE h = "X-RateLimit-Limit" -> "1000"
          [] h = "X-RateLimit-Remaining" -> str(res.remaining)
          [] h = "X-RateLimit-Reset" -> str(res.reset_time)
          [] OTHER -> IF TruthyInt(res.retry_after) THEN str(res.retry_after[1]) ELSE "60"]

\* The gatekeeper from the return of check_rate_limit on.  The dependency
\* (and the decorator, which awaits it): on deny the headers are built,
\* default_limits[limit_type] raising KeyError for a class the table lacks,
\* and HTTPException(429) is raised; on allow the handler runs.  The
\* middleware: on deny the JSONResponse is sent inside the try block, and
\* when sending raises the except clause logs it and the app is called; on
\* allow the app is called.
GateAfter(g, res, sent) ==
    LET base == [g EXCEPT !.status = "finished",
                          !.verdict = IF res.allowed THEN "allow" ELSE "deny",
                          !.retry_after = res.retry_after]
    IN  IF res.allowed THEN [base EXCEPT !.handler = 1]
        ELSE IF g.via = "middleware"
        THEN IF sent
             THEN [base EXCEPT !.response = "429", !.headers = MiddlewareHeaders(res)]
             ELSE [base EXCEPT !.sendFailed = TRUE, !.handler = 1]
        ELSE IF g.limit_type \in DOMAIN default_limits
        THEN [base EXCEPT !.response = "429",
                          !.headers = DependencyHeaders(res,
                                          default_limits[g.limit_type].requests)]
        ELSE [base EXCEPT !.raised = "KeyError"]

\* the exception of the check leaves the middleware too
GateRaisedPropagates(g) == [g EXCEPT !.status = "finished", !.raised = "Exception"]

\* check_rate_limit raised: the exception leaves the dependency; the
\* middleware logs it and calls the app.
GateRaised(g) ==
    IF g.via = "middleware" THEN [g EXCEPT !.status = "finished", !.handler = 1]
    ELSE [g EXCEPT !.status = "finished", !.raised = "Exception"]

\* A request reaches a gatekeeper and its check starts.
GateReady == gate.status # "checking" /\ gate.n < MaxRequests
GateStart(via, limit_type, caller, is_premium) ==
    /\ LET user_id == IF via = "middleware" THEN None ELSE caller.user_id
           identifier == get_identifier_from_request(caller.request, user_id)
       IN  /\ BeginCheck(1, identifier, limit_type, is_premium)
           /\ gate' = [NoGate EXCEPT !.via = via, !.limit_type = limit_type,
                                     !.request = caller.request, !.user_id = user_id,
                                     !.identifier = identifier, !.status = "checking",
                                     !.n = gate.n + 1]
    /\ UNCHANGED <<nchecks, scen, env, ret, twin>>

DependencyStart ==
    /\ GateReady
    /\ \E c \in GateClasses, caller \in GateCallers, prem \in PremiumInputs :
          GateStart("dependency", c, caller, prem)

\* wrapper(*args, **kwargs) with a request among the kwargs
DecoratorStart ==
    /\ GateReady
    /\ \E c \in GateClasses, caller \in GateCallers, prem \in PremiumInputs :
          GateStart("decorator", c, caller, prem)

\* __call__ for an http scope whose path is not exempt
MiddlewareStart ==
    /\ GateReady
    /\ \E caller \in GateCallers : GateStart("middleware", MiddlewareClass, caller, FALSE)

\* No check: the middleware on "/", "/health", "/docs", "/openapi.json",
\* the decorator without a request among the kwargs.
GatePass ==
    /\ GateReady
    /\ \E via \in {"decorator", "middleware"} :
          gate' = [NoGate EXCEPT !.via = via, !.status = "finished", !.handler = 1,
                                 !.n = gate.n + 1]
    /\ UNCHANGED <<backend, default_limits, premium_limits, now, store, pc, loc, result,
                   obs, hist, everFailed, nchecks, scen, env, ret, twin>>

\* A step of the check; when it returns the gatekeeper runs to its end.
GateStep ==
    /\ gate.status = "checking"
    /\ GetReply(1) \/ WriteReply(1)
    /\ \E sent \in BOOLEAN :
          gate' = IF pc'[1] = "done" THEN GateAfter(gate, result'[1], sent)
                  ELSE IF pc'[1] = "raised" THEN GateRaised(gate)
                  ELSE gate
    /\ UNCHANGED <<scen, env, ret, twin>>

NextGate ==
    \/ DependencyStart
    \/ DecoratorStart
    \/ MiddlewareStart
    \/ GatePass
    \/ GateStep

SpecGate == InitGate /\ [][NextGate]_vars

\* ------------------------------------------------------- the middleware's scopes
\* RateLimitMiddleware.__call__(scope, receive, send): scope["type"] and
\* request.url.path.  "/health/" is none of the listed paths.
ExemptPaths == {"/", "/health", "/docs", "/openapi.json"}
Paths == ExemptPaths \cup {"/api/v1/documents", "/health/"}
Scopes ==
    {[type |-> "http", path |-> p] : p \in Paths}
    \cup {[type |-> "websocket", path |-> "/api/v1/documents"], [type |-> "lifespan", path |-> ""]}
Unchecked(scope) == scope.type # "http" \/ scope.path \in ExemptPaths

\* __call__: a scope that is not http, or an exempt path, goes to the app;
\* any other request is checked under "global" for the identifier of the
\* request without a user id.
MiddlewareCall ==
    /\ GateReady
    /\ \E scope \in Scopes, caller \in GateCallers :
          LET identifier == get_identifier_from_request(caller.request, None)
              g == [NoGate EXCEPT !.via = "middleware", !.request = caller.request,
                                  !.scope = scope.type, !.path = scope.path,
                                  !.n = gate.n + 1]
          IN  IF Unchecked(scope)
              THEN /\ gate' = [g EXCEPT !.status = "finished", !.handler = 1]
                   /\ UNCHANGED <<backend, default_limits, premium_limits, now, store, pc,
                                  loc, result, obs, hist, everFailed>>
              ELSE /\ BeginCheck(1, identifier, MiddlewareClass, FALSE)
                   /\ gate' = [g EXCEPT !.limit_type = MiddlewareClass,
                                        !.identifier = identifier, !.status = "checking"]
    /\ UNCHANGED <<nchecks, scen, env, ret, twin>>

\* Another client of the Redis server writes under the key the middleware's
\* next check reads.
MiddlewareForeignWrite ==
    /\ GateReady
    /\ \E caller \in GateCallers, text \in ForeignTexts :
          ForeignWrite(MiddlewareClass, get_identifier_from_request(caller.request, None), text)
    /\ UNCHANGED aux

NextMiddleware ==
    \/ MiddlewareCall
    \/ GateStep
    \/ MiddlewareForeignWrite

SpecMiddleware == InitGate /\ [][NextMiddleware]_vars

\* ------------------------------------------------- the gatekeeper and the tiers
\* The "global" entries as RateLimiter.__init__ writes them, and an "upload"
\* entry a few requests use up: limit 1 for the standard tier, 2 for premium.
MaxTierRequests == 3
TierPolicies ==
    {rl \in RateLimits : rl.requests = 1 /\ rl.strategy # "fixed_window" /\ rl.window = 1}
InitTier ==
    /\ backend \in {"redis", "memory"}
    /\ \E rl \in TierPolicies :
          /\ default_limits = [c \in TableClasses |->
                                 IF c = "global" THEN DefaultLimitsTable["global"] ELSE rl]
          /\ premium_limits = [c \in TableClasses |->
                                 IF c = "global" THEN PremiumLimitsTable["global"]
                                 ELSE [rl EXCEPT !.requests = 2]]
    /\ store = <<>>
    /\ pc = [p \in Tasks |-> "idle"]
    /\ loc = [p \in Tasks |-> IdleLoc]
    /\ result = [p \in Tasks |-> NoResult]
    /\ obs = [p \in Tasks |-> NoObs]
    /\ hist = [pr \in (GateClasses \cup {MiddlewareClass}) \X GateIdentifiers |-> NoHist]
    /\ everFailed = FALSE
    /\ nchecks = 0
    /\ now = 0
    /\ scen = NoScen
    /\ ServiceUp

\* rate_limit_dependency(request, limit_type, user_id, is_premium), called
\* directly or by the decorator, for either tier; the middleware's check.
TierStart ==
    /\ gate.status # "checking"
    /\ gate.n < MaxTierRequests
    /\ \/ \E via \in {"dependency", "decorator"}, c \in GateClasses,
             caller \in GateCallers, prem \in BOOLEAN : GateStart(via, c, caller, prem)
       \/ \E caller \in GateCallers : GateStart("middleware", MiddlewareClass, caller, FALSE)

NextTier ==
    \/ TierStart
    \/ GateStep

SpecTier == InitTier /\ [][NextTier]_vars

\* ============================================================ the cache service
\* CacheService from its construction on: initialize, then the calls of its
\* interface on one key, with the clock and the sweep of InMemoryCache.

\* REDIS_AVAILABLE, a configured URL, the answer to the first ping.
Envs == [lib : BOOLEAN, url : BOOLEAN, ping : BOOLEAN]

\* RedisCache.initialize: ValueError without a URL; from_url / ping errors
\* are logged and raised again.
RedisInitialize(e) ==
    IF ~e.url THEN "ValueError" ELSE IF ~e.ping THEN "ConnectionError" ELSE "ok"

\* the exception leaves initialize
Reraised(exc) == exc
\* except Exception as e: logger.warning(...), and on to the fallback
Handled(exc) == "ok"

\* CacheService.initialize: Redis first when the library and a URL are
\* there, else (or when that raised) the in-memory cache.
InitializeOutcome(e) ==
    LET tried == e.lib /\ e.url
        r == IF tried THEN RedisInitialize(e) ELSE "ok"
    IN  IF tried /\ r = "ok" THEN [current_cache |-> "redis", raised |-> "ok"]
        ELSE IF Handled(r) = "ok" THEN [current_cache |-> "memory", raised |-> "ok"]
        ELSE [current_cache |-> "none", raised |-> Handled(r)]

\* a call made after a failed one goes to the fallback
FallbackAfterFailure == IF everFailed THEN "memory" ELSE backend
\* self.current_cache, as every call of CacheService reads it
ServingCache == backend

StoreKeys == {rate_limit_key(i) : i \in Identifiers}
StoreValues == 1..MaxCount
StoreTTLs == 1..MaxWindow

\* InMemoryCache._cleanup_expired: entries with expires_at <= now go.
\* expired_keys is listed and deleted without an await in between, so no
\* other call runs inside a sweep.
ExpiredKeys(s, t) == {k \in DOMAIN s : s[k].expires_at <= t}
DeleteKeys(s, keys) == [k \in (DOMAIN s) \ keys |-> s[k]]
\* entries that expire within the next tick go as well
MemSweepEarly(s, t) == DeleteKeys(s, ExpiredKeys(s, t + 1))
MemSweep(s, t) == DeleteKeys(s, ExpiredKeys(s, t))

\* exists: InMemoryCache asks get; RedisCache asks EXISTS, False on an error.
MemExistsReply(s, k, t) == MemGetReply(s, k, t).kind = "value"
RedisExistsReply(s, k, t, ok) == ok /\ k \in DOMAIN RedisLive(s, t)

InitStore ==
    /\ backend = "none"
    /\ env \in Envs
    /\ ret = NoRet
    /\ twin = <<>>
    /\ gate = NoGate
    /\ store = <<>>
    /\ now = 0
    /\ everFailed = FALSE
    /\ default_limits = DefaultLimitsTable
    /\ premium_limits = PremiumLimitsTable
    /\ pc = [p \in Tasks |-> "idle"]
    /\ loc = [p \in Tasks |-> IdleLoc]
    /\ result = [p \in Tasks |-> NoResult]
    /\ obs = [p \in Tasks |-> NoObs]
    /\ hist = [pr \in Pairs |-> NoHist]
    /\ nchecks = 0
    /\ scen = NoScen

limiterVars == <<default_limits, premium_limits, pc, loc, result, obs, hist, nchecks, scen,
                 gate>>

Called(op, k, reply, twinReply) ==
    [op |-> op, key |-> k, at |-> now, reply |-> reply, twinReply |-> twinReply,
     raised |-> "ok", servedBy |-> ServingCache, held |-> k \in DOMAIN twin]

\* lifespan: await cache_service.initialize()
Initialize ==
    /\ backend = "none"
    /\ ret.op = "none"
    /\ backend' = InitializeOutcome(env).current_cache
    /\ ret' = [NoRet EXCEPT !.op = "initialize", !.raised = InitializeOutcome(env).raised]
    /\ UNCHANGED <<env, twin, store, now, everFailed, limiterVars>>

Up == backend # "none"

Get(k) ==
    /\ Up
    /\ \E ok \in Outcomes :
         /\ NoteFailure(ok)
         /\ store' = CacheGetStore(k)
         /\ twin' = MemGetStore(twin, k, now)
         /\ ret' = Called("get", k, CacheGetReply(k, ok), MemGetReply(twin, k, now))
    /\ UNCHANGED <<backend, env, now, limiterVars>>

Set(k, v, ttl) ==
    /\ Up
    /\ \E ok \in Outcomes :
         /\ NoteFailure(ok)
         /\ store' = CacheSetStore(k, v, ttl, ok)
         /\ twin' = MemSetStore(twin, k, v, ttl, now)
         /\ ret' = Called("set", k, BoolReply(ok), BoolReply(TRUE))
    /\ UNCHANGED <<backend, env, now, limiterVars>>

Delete(k) ==
    /\ Up
    /\ \E ok \in Outcomes :
         /\ NoteFailure(ok)
         /\ store' = IF backend = "redis" THEN RedisDeleteStore(store, k, now, ok)
                     ELSE MemDeleteStore(store, k)
         /\ twin' = MemDeleteStore(twin, k)
         /\ ret' = Called("delete", k,
                          BoolReply(IF backend = "redis" THEN RedisDeleteReply(store, k, now, ok)
                                    ELSE MemDeleteReply(store, k)),
                          BoolReply(MemDeleteReply(twin, k)))
    /\ UNCHANGED <<backend, env, now, limiterVars>>

Exists(k) ==
    /\ Up
    /\ \E ok \in Outcomes :
         /\ NoteFailure(ok)
         /\ store' = CacheGetStore(k)
         /\ twin' = MemGetStore(twin, k, now)
         /\ ret' = Called("exists", k,
                          BoolReply(IF backend = "redis" THEN RedisExistsReply(store, k, now, ok)
                                    ELSE MemExistsReply(store, k, now)),
                          BoolReply(MemExistsReply(twin, k, now)))
    /\ UNCHANGED <<backend, env, now, limiterVars>>

\* clear: _cache.clear() / FLUSHDB
Clear ==
    /\ Up
    /\ \E ok \in Outcomes :
         /\ NoteFailure(ok)
         /\ store' = IF ok THEN <<>> ELSE store
         /\ twin' = <<>>
         /\ ret' = Called("clear", <<>>, BoolReply(ok), BoolReply(TRUE))
    /\ UNCHANGED <<backend, env, now, limiterVars>>

IncrementRateLimit(identifier, window) ==
    /\ Up
    /\ StoredCounter(rate_limit_key(identifier)) < MaxCount
    /\ OrZero(MemGetReply(twin, rate_limit_key(identifier), now)) < MaxCount
    /\ \E ok \in Outcomes :
         /\ NoteFailure(ok)
         /\ store' = IncrementStore(identifier, window, ok)
         /\ twin' = MemIncrementStore(twin, rate_limit_key(identifier), window, now)
         /\ ret' = Called("increment_rate_limit", rate_limit_key(identifier),
                          IntReply(IncrementReply(identifier, ok)),
                          IntReply(MemIncrementReply(twin, rate_limit_key(identifier), now)))
    /\ UNCHANGED <<backend, env, now, limiterVars>>

\* increment_rate_limit on Redis when the server has run the pipeline and the
\* reply does not arrive (socket_timeout): the except clause returns 0.
IncrementReplyLost(identifier, window) ==
    /\ backend = "redis"
    /\ StoredCounter(rate_limit_key(identifier)) < MaxCount
    /\ OrZero(MemGetReply(twin, rate_limit_key(identifier), now)) < MaxCount
    /\ everFailed' = TRUE
    /\ store' = IncrementStore(identifier, window, TRUE)
    /\ twin' = MemIncrementStore(twin, rate_limit_key(identifier), window, now)
    /\ ret' = Called("increment_rate_limit", rate_limit_key(identifier), IntReply(0),
                     IntReply(MemIncrementReply(twin, rate_limit_key(identifier), now)))
    /\ UNCHANGED <<backend, env, now, limiterVars>>

\* The background task of InMemoryCache wakes up.
Sweep ==
    /\ backend = "memory"
    /\ store' = MemSweep(store, now)
    /\ UNCHANGED <<backend, env, ret, twin, now, everFailed, limiterVars>>

StoreTick ==
    /\ Up
    /\ now < MaxTime
    /\ now' = now + 1
    /\ store' = IF backend = "redis" THEN RedisLive(store, now + 1) ELSE store
    /\ UNCHANGED <<backend, env, ret, twin, everFailed, limiterVars>>

NextStore ==
    \/ Initialize
    \/ \E k \in StoreKeys : Get(k)
    \/ \E k \in StoreKeys, v \in StoreValues, ttl \in StoreTTLs : Set(k, v, ttl)
    \/ \E k \in StoreKeys : Delete(k)
    \/ \E k \in StoreKeys : Exists(k)
    \/ Clear
    \/ \E i \in Identifiers, w \in StoreTTLs : IncrementRateLimit(i, w)
    \/ \E i \in Identifiers, w \in StoreTTLs : IncrementReplyLost(i, w)
    \/ Sweep
    \/ StoreTick

SpecStore == InitStore /\ [][NextStore]_vars

\* ------------------------------------------------------- the sweep among the calls
\* Two keys, so that a run of the sweep finds expired entries next to
\* unexpired ones; set and delete calls and the clock between the runs; a
\* startup environment in which initialize chooses the in-process store.
SweepKeys == StoreKeys \cup {<<"session", "alice">>}
InitSweep == InitStore /\ InitializeOutcome(env).current_cache = "memory"

NextSweep ==
    \/ Initialize
    \/ \E k \in SweepKeys, v \in StoreValues, ttl \in StoreTTLs : Set(k, v, ttl)
    \/ \E k \in SweepKeys : Delete(k)
    \/ Sweep
    \/ StoreTick

SpecSweep == InitSweep /\ [][NextSweep]_vars

\* =================================================================== claims
Done(p) == pc[p] = "done"
Strategy(p) == loc[p].rl.strategy
Limit(p) == loc[p].rl.requests
Window(p) == loc[p].rl.window
\* current_time of the check, in whole seconds
CheckTime(p) == IntSeconds(loc[p].t)

\* How many earlier checks of the pair were allowed in the fixed window
\* the check of p fell into.
AdmittedInWindow(p) ==
    Cardinality({n \in 1..Len(obs[p].prior) :
        FixedWindowStart(obs[p].prior[n], loc[p].rl) = FixedWindowStart(CheckTime(p), loc[p].rl)})

\* How many earlier checks of the pair were allowed at a whole-second time
\* newer than current_time - window.
AdmittedRecently(p) ==
    Cardinality({n \in 1..Len(obs[p].prior) : obs[p].prior[n] > CheckTime(p) - Window(p)})

\* C1: fixed window, no store failure: with k < limit checks already allowed
\* in the window the check is allowed with remaining = limit - 1 - k; with
\* exactly limit checks already allowed in the window it is denied with
\* remaining = 0 and 0 < retry_after <= window.
C1_FixedWindowDeniesAfterLimit ==
    \A p \in Tasks :
        (Done(p) /\ Strategy(p) = "fixed_window" /\ ~everFailed) =>
            /\ AdmittedInWindow(p) < Limit(p) =>
                  /\ result[p].allowed
                  /\ result[p].remaining = Limit(p) - 1 - AdmittedInWindow(p)
            /\ AdmittedInWindow(p) = Limit(p) =>
                  /\ ~result[p].allowed
                  /\ result[p].remaining = 0
                  /\ result[p].retry_after # None
                  /\ result[p].retry_after[1] > 0
                  /\ result[p].retry_after[1] <= Window(p)

\* C2: sliding window, no store failure: a check is denied when limit
\* earlier checks were allowed at whole-second times newer than
\* current_time - window, and allowed when fewer were.
C2_SlidingDeniesAtLimit ==
    \A p \in Tasks :
        (Done(p) /\ Strategy(p) = "sliding_window" /\ ~everFailed) =>
            (result[p].allowed <=> AdmittedRecently(p) < Limit(p))

C2_Witness ==
    \E p \in Tasks :
        /\ Done(p) /\ Strategy(p) = "sliding_window" /\ ~everFailed
        /\ Limit(p) >= 2
        /\ AdmittedRecently(p) = Limit(p)
        /\ ~result[p].allowed

\* C3: the check issued right after reset_rate_limit for the same identifier
\* and class (no store failure, a policy whose capacity is its limit) is
\* allowed with remaining = limit - 1.
C3_ResetThenCheckAllows ==
    \A p \in Tasks :
        (Done(p) /\ loc[p].afterReset /\ ~everFailed /\ MaxTokens(loc[p].rl) = Limit(p)) =>
            /\ result[p].allowed
            /\ result[p].remaining = Limit(p) - 1

\* C4: fixed window: when NumTasks > limit concurrent checks of one
\* identifier and class against a fresh window have all returned (no store
\* failure), exactly limit of them were allowed.
C4_ConcurrentFixedAdmitsLimit ==
    ((\A p \in Tasks : Done(p) /\ Strategy(p) = "fixed_window" /\ NumTasks > Limit(p))
        /\ ~everFailed) =>
        \A q \in Tasks : Cardinality({p \in Tasks : result[p].allowed}) = Limit(q)

\* The tasks whose increment_rate_limit call has returned without a store
\* failure, and the counter they incremented.
Incremented == {p \in Tasks : Done(p) /\ obs[p].incremented /\ ~obs[p].writeFailed}
CounterKey(p) == rate_limit_key(CheckKey(loc[p]))

\* C5: on either backend, the k increment_rate_limit calls that have
\* returned (without a store failure) for one key that started absent
\* returned the k distinct values 1..k, and the stored counter is k.
C5_IncrementAtomic ==
    /\ {obs[p].count : p \in Incremented} = 1..Cardinality(Incremented)
    /\ \A p \in Incremented : StoredCounter(CounterKey(p)) = Cardinality(Incremented)

C5_Witness ==
    /\ Cardinality(Incremented) = NumTasks
    /\ backend = "memory"

\* C6: a check during which a store operation failed returns allowed = true,
\* under each strategy.
C6_FailOpen ==
    \A p \in Tasks : (Done(p) /\ loc[p].failed) => result[p].allowed

C6_Witness ==
    \E p \in Tasks :
        /\ Done(p) /\ loc[p].getFailed /\ result[p].allowed
        /\ AdmittedRecently(p) >= Limit(p)
        /\ Strategy(p) = "sliding_window"

\* C7: a failed get hands the rate limiter something that is neither an
\* absent key (None) nor a value, and a failed increment hands it something
\* that is not a counter value.
C7_FailureDistinguishable ==
    \A p \in Tasks :
        /\ loc[p].getFailed => loc[p].got.kind \notin {"none", "value"}
        /\ (Done(p) /\ obs[p].incremented /\ obs[p].writeFailed) => obs[p].count \notin Nat

\* bucket capacity for a token bucket, the limit otherwise
Capacity(p) == IF Strategy(p) = "token_bucket" THEN MaxTokens(loc[p].rl) ELSE Limit(p)

\* C8 as stated, for checks without a store failure: remaining is never
\* negative and on an allowed check never greater than limit - 1, and for
\* fixed and sliding window it is max(0, limit - consumed).
C8_RemainingWithinLimit ==
    \A p \in Tasks :
        (Done(p) /\ ~everFailed) =>
            /\ result[p].remaining >= 0
            /\ result[p].allowed => result[p].remaining <= Limit(p) - 1
            /\ Strategy(p) = "fixed_window" =>
                  result[p].remaining = Max(0, Limit(p) - (AdmittedInWindow(p) + 1))
            /\ (Strategy(p) = "sliding_window" /\ result[p].allowed) =>
                  result[p].remaining = Max(0, Limit(p) - (AdmittedRecently(p) + 1))

\* C8 amended: remaining is never negative and never above the capacity
\* (limit; burst-or-limit for a token bucket).  Without a store failure:
\* fixed window returns max(0, limit - consumed), sliding window returns
\* limit - consumed when it allows and 0 when it denies, consumed counting
\* the allowed checks of the window with this one; a token bucket returns
\* the tokens left, at most capacity - 1.
C8_RemainingWithinCapacity ==
    \A p \in Tasks :
        Done(p) =>
            /\ result[p].remaining >= 0
            /\ result[p].remaining <= Capacity(p)
            /\ ~result[p].allowed => result[p].remaining = 0
            /\ (result[p].allowed /\ Strategy(p) # "fixed_window") =>
                  result[p].remaining <= Capacity(p) - 1
            /\ (Strategy(p) = "token_bucket" /\ result[p].allowed) =>
                  result[p].remaining = obs[p].count
            /\ (Strategy(p) = "fixed_window" /\ ~everFailed) =>
                  result[p].remaining = Max(0, Limit(p) - (AdmittedInWindow(p) + 1))
            /\ (Strategy(p) = "sliding_window" /\ result[p].allowed /\ ~everFailed) =>
                  result[p].remaining = Limit(p) - (AdmittedRecently(p) + 1)

C8_Witness ==
    \E p \in Tasks :
        /\ Done(p) /\ ~everFailed /\ Strategy(p) = "token_bucket"
        /\ result[p].allowed
        /\ result[p].remaining > Limit(p) - 1

\* C9: a denied check returns a reset_time that is not before the clock
\* reading of the check.
C9_ResetTimeNotInPast ==
    \A p \in Tasks :
        (Done(p) /\ ~result[p].allowed) => result[p].reset_time * TicksPerSec >= loc[p].t

\* The previous check of the pair (no reset in between) lies in the same
\* window as the check of p: the same fixed window, or for the sliding
\* window newer than current_time - window.
PrevInWindow(p) ==
    /\ obs[p].prev # None
    /\ IF Strategy(p) = "fixed_window"
       THEN FixedWindowStart(obs[p].prev[1].ct, loc[p].rl)
               = FixedWindowStart(CheckTime(p), loc[p].rl)
       ELSE obs[p].prev[1].ct > CheckTime(p) - Window(p)

\* C10 as stated: fixed and sliding window, no reset and no store failure:
\* remaining does not go up from one check to the next inside one window.
C10_RemainingNonIncreasing ==
    \A p \in Tasks :
        (Done(p) /\ Strategy(p) # "token_bucket" /\ ~everFailed /\ PrevInWindow(p)) =>
            result[p].remaining <= obs[p].prev[1].remaining

\* No timestamp the previous check counted has left the window.
PrevStillCounted(p) ==
    /\ obs[p].prev # None
    /\ IF Strategy(p) = "fixed_window"
       THEN FixedWindowStart(obs[p].prev[1].ct, loc[p].rl)
               = FixedWindowStart(CheckTime(p), loc[p].rl)
       ELSE obs[p].prev[1].oldest > CheckTime(p) - Window(p)

\* C10 amended: as stated for the fixed window; for the sliding window
\* remaining does not go up from one check to the next as long as every
\* timestamp the earlier check counted is still newer than
\* current_time - window at the later one.
C10_NonIncreasingWhileCounted ==
    \A p \in Tasks :
        (Done(p) /\ Strategy(p) # "token_bucket" /\ ~everFailed /\ PrevStillCounted(p)) =>
            result[p].remaining <= obs[p].prev[1].remaining

C10_Witness ==
    \E p \in Tasks :
        /\ Done(p) /\ Strategy(p) = "sliding_window" /\ ~everFailed /\ PrevStillCounted(p)
        /\ result[p].allowed
        /\ result[p].remaining < obs[p].prev[1].remaining
        /\ loc[p].t > obs[p].prev[1].ct * TicksPerSec

\* The policy of the scenario and the number k of the wait: waited ticks are
\* k * (window / limit) seconds.
TokenPolicy == default_limits["upload"]
WholeK == (scen.waited * TokenPolicy.requests) % (TokenPolicy.window * TicksPerSec) = 0
WaitK == (scen.waited * TokenPolicy.requests) \div (TokenPolicy.window * TicksPerSec)
\* The bucket entry (TTL 2 * window from the last allowed check) has run out.
BucketExpired == scen.idle >= 2 * TokenPolicy.window * TicksPerSec
BurstEnded == scen.phase = "drained" /\ scen.waited > 0
DeniedRetryAfterOne ==
    \A p \in Tasks :
        (Done(p) /\ ~everFailed /\ Strategy(p) = "token_bucket" /\ ~result[p].allowed
            /\ Window(p) = Limit(p)) => result[p].retry_after = Some(1)

\* C11 as stated (no store failure): after a denial, a wait of
\* k * (window / limit) seconds without checks and then checks without delay,
\* exactly min(k, capacity) checks are allowed before the next denial; and
\* with window = limit (one token a second) a denial carries retry_after = 1.
C11_RefillAdmitsMinKCapacity ==
    /\ (~everFailed /\ scen.waited > 0 /\ WholeK) =>
          /\ scen.admitted <= Min(WaitK, MaxTokens(TokenPolicy))
          /\ BurstEnded => scen.admitted = Min(WaitK, MaxTokens(TokenPolicy))
    /\ DeniedRetryAfterOne

\* What a burst admits: min(k, capacity) from the stored bucket, and
\* min(limit, capacity) from the fresh bucket that replaces an expired one.
BurstQuota ==
    IF BucketExpired THEN Min(TokenPolicy.requests, MaxTokens(TokenPolicy))
    ELSE Min(WaitK, MaxTokens(TokenPolicy))

\* C11 amended: as stated while the bucket entry is still stored at the end
\* of the wait; when 2 * window seconds or more have passed since the last
\* allowed check the entry has expired and the burst admits
\* min(limit, capacity) checks.
C11_RefillAdmitsBurstQuota ==
    /\ (~everFailed /\ scen.waited > 0 /\ WholeK) =>
          /\ scen.admitted <= BurstQuota
          /\ BurstEnded => scen.admitted = BurstQuota
    /\ DeniedRetryAfterOne

\* one token a second, capacity above 1: after 2 s exactly two more checks
C11_Witness ==
    /\ ~everFailed /\ BurstEnded /\ WholeK /\ ~BucketExpired
    /\ TokenPolicy.window = TokenPolicy.requests
    /\ WaitK = 2 /\ scen.admitted = 2
    /\ \E p \in Tasks : Done(p) /\ ~result[p].allowed /\ result[p].retry_after = Some(1)

\* The table of a tier, and the configuration the tier's "global" fallback
\* rule gives a class.
TierLimits(is_premium) == IF is_premium THEN premium_limits ELSE default_limits
TierConfig(limit_type, is_premium) ==
    IF limit_type \in DOMAIN TierLimits(is_premium)
    THEN TierLimits(is_premium)[limit_type]
    ELSE TierLimits(is_premium)["global"]
Checking(p) == pc[p] # "idle"

\* C12: a check of a class the table lacks runs under the "global"
\* configuration of the caller's tier (premium global for a premium caller,
\* standard global for a standard caller), a check of a known class under
\* the tier's entry, and never under a zero limit.
C12_UnknownClassUsesTierGlobal ==
    \A p \in Tasks :
        Checking(p) =>
            /\ loc[p].rl = TierConfig(loc[p].limit_type, loc[p].is_premium)
            /\ loc[p].rl.requests > 0

\* C13: both tiers define the same classes, "global" among them, and for
\* every class the premium entry has at least the standard limit over a
\* window no longer than the standard one; so a premium check of a class of
\* the table never runs under a lower limit than a standard check would.
C13_PremiumAtLeastStandard ==
    /\ DOMAIN premium_limits = DOMAIN default_limits
    /\ "global" \in DOMAIN default_limits
    /\ \A c \in DOMAIN default_limits :
          /\ premium_limits[c].requests >= default_limits[c].requests
          /\ premium_limits[c].window <= default_limits[c].window
    /\ \A p \in Tasks :
          (Checking(p) /\ loc[p].is_premium /\ loc[p].limit_type \in DOMAIN default_limits) =>
              /\ loc[p].rl.requests >= default_limits[loc[p].limit_type].requests
              /\ loc[p].rl.window <= default_limits[loc[p].limit_type].window

\* a premium caller is left with more than the whole standard limit
C13_Witness ==
    \E p \in Tasks :
        /\ Done(p) /\ loc[p].is_premium /\ loc[p].limit_type = "auth"
        /\ result[p].allowed
        /\ result[p].remaining >= default_limits["auth"].requests

\* The keys that hold state of the pair (class c, identifier i): its
\* cache_key with one more field (window start, "timestamps", "bucket") and
\* the counter increment_rate_limit keeps for its window key.
HoldsStateOf(k, c, i) ==
    LET ck == cache_key(c, i)
    IN  \/ Len(k) = Len(ck) + 1 /\ SubSeq(k, 1, Len(ck)) = ck
        \/ Len(k) = Len(ck) + 2 /\ SubSeq(k, 1, Len(ck) + 1) = rate_limit_key(ck)
PairState(s, c, i) == [k \in {x \in DOMAIN s : HoldsStateOf(x, c, i)} |-> s[k]]
\* The step is a step of a check_rate_limit or reset_rate_limit call for (c, i).
CallFor(c, i) ==
    \/ \E p \in Tasks :
          /\ InFlight(p) /\ loc[p].limit_type = c /\ loc[p].identifier = i
          /\ pc'[p] # pc[p]
    \/ Reset(i, c)

\* C14: a step of a check_rate_limit or reset_rate_limit call for (c, i)
\* leaves the stored counter state of every other pair (c2, i2) as it was.
C14_NoCrossInterference ==
    [][\A c \in PairClasses, i \in PairIdentifiers :
          CallFor(c, i) =>
              \A c2 \in PairClasses, i2 \in PairIdentifiers :
                  (<<c2, i2>> # <<c, i>>) => PairState(store', c2, i2) = PairState(store, c2, i2)]_vars

\* The call returned a value (get) or True (exists).
Present(reply) == reply.kind = "value" \/ (reply.kind = "bool" /\ reply.value)
\* s holds an entry under k whose expiry time is still ahead.
LiveIn(s, k) == k \in DOMAIN s /\ s[k].expires_at > now
ReadNow == backend = "memory" /\ ret.op \in {"get", "exists"} /\ ret.at = now

\* C15: in the in-process store a get or exists that has just returned a
\* value (True) read an entry whose expiry time, the time of its set plus
\* its TTL, is later than the clock, in the swept store and in the one that
\* is never swept; an entry at or past its expiry time is reported absent
\* and is gone after the read.
C15_NoReadAfterExpiry ==
    ReadNow =>
        /\ Present(ret.reply) => LiveIn(store, ret.key)
        /\ Present(ret.twinReply) => LiveIn(twin, ret.key)
        /\ ~Present(ret.reply) => ret.key \notin DOMAIN store
        /\ ~Present(ret.twinReply) => ret.key \notin DOMAIN twin

\* no sweep has taken the expired entry away, and the read reports it absent
C15_Witness ==
    /\ ReadNow /\ ret.op = "get"
    /\ ret.held
    /\ ~Present(ret.twinReply)

\* C16: with the in-process store every call returns the same whether the
\* sweep has run between the calls or never runs.
C16_SweepIndependent ==
    backend = "memory" => ret.reply = ret.twinReply

\* C17: without a store failure every call returns on the distributed
\* backend what it returns on the in-process store given the same calls at
\* the same times.
C17_BackendTransparent ==
    (backend = "redis" /\ ~everFailed) => ret.reply = ret.twinReply

\* C18: once initialize has returned, current_cache is one of the two
\* implementations, the one initialize chose for the startup environment,
\* and every later call is served by it, also after a call has failed.
C18_BackendSelectedOnce ==
    Up =>
        /\ backend \in {"redis", "memory"}
        /\ backend = InitializeOutcome(env).current_cache
        /\ ret.op \notin {"none", "initialize"} =>
              ret.servedBy = InitializeOutcome(env).current_cache

C18_Witness ==
    /\ Up /\ backend = "redis" /\ everFailed
    /\ ret.op = "get" /\ ret.at > 0
    /\ ret.servedBy = "redis"

\* C19: initialize raises nothing and leaves a store active; the
\* distributed backend is active only when the library is there, a URL is
\* configured and the ping succeeded, and the in-process store otherwise.
C19_InitializeFallsBack ==
    /\ ret.op = "initialize" => (ret.raised = "ok" /\ Up)
    /\ backend = "redis" => (env.lib /\ env.url /\ env.ping)
    /\ (Up /\ ~(env.lib /\ env.url /\ env.ping)) => backend = "memory"

\* the ping failed and the in-process store took over
C19_Witness ==
    /\ ret.op = "initialize" /\ ret.raised = "ok"
    /\ env.lib /\ env.url /\ ~env.ping
    /\ backend = "memory"

\* The check of p has got past its read.
PastRead(p) == pc[p] \in {"write", "done", "raised"}

\* C20: a check whose read found state of another shape than the limiter
\* writes does not raise: it goes on as for an absent key and returns a
\* RateLimitResult, and after its successful write the key it read holds
\* state of the limiter's own shape again.
C20_MalformedTreatedAsAbsent ==
    \A p \in Tasks :
        (loc[p].gotMalformed /\ PastRead(p)) =>
            /\ pc[p] # "raised"
            /\ loc[p].got = NoneReply
            /\ (Done(p) /\ ~loc[p].failed) =>
                  /\ CheckKey(loc[p]) \in DOMAIN store
                  /\ OwnJson(store[CheckKey(loc[p])].value)

\* The gatekeeper is through with the request.
Finished == gate.status = "finished"
Denied == Finished /\ gate.verdict = "deny"

\* C21: when the gatekeeper (dependency, decorator or middleware) is through
\* with a request whose verdict was deny, a 429 rejection was produced and
\* the wrapped handler (the downstream app) was not invoked; when the
\* verdict was allow, the handler was invoked exactly once and nothing was
\* rejected.
C21_DenyRejectsAllowInvokesOnce ==
    /\ Denied => (gate.response = "429" /\ gate.handler = 0)
    /\ (Finished /\ gate.verdict = "allow") => (gate.handler = 1 /\ gate.response = "none")

MetadataFields == {"X-RateLimit-Limit", "X-RateLimit-Remaining", "X-RateLimit-Reset", "Retry-After"}

\* C22: every denial the gatekeeper has delivered carries the four fields
\* limit, remaining (0), reset and retry-after, and building them raised
\* nothing.
C22_DenialCarriesFourFields ==
    (Denied /\ ~gate.sendFailed) =>
        /\ gate.raised = "ok"
        /\ DOMAIN gate.headers = MetadataFields
        /\ gate.headers["X-RateLimit-Remaining"] = "0"

\* The first address of a forwarded-for chain: its first part, blanks aside.
FirstAddress(header) == SelectSeq(header[1], LAMBDA x : x # Blank)
Derived == gate.status = "derived"

\* The identifier by the priority user id, forwarded-for chain, the sources
\* named in direct (in their order), "unknown".
RECURSIVE FirstGiven(_)
FirstGiven(direct) ==
    IF direct = <<>> THEN <<"unknown">>
    ELSE IF Head(direct) # None THEN Head(direct)[1]
    ELSE FirstGiven(Tail(direct))
ByPriority(direct) ==
    IF gate.user_id # None THEN <<"user", gate.user_id[1]>>
    ELSE IF gate.request.forwarded_for # None
    THEN <<"ip">> \o FirstAddress(gate.request.forwarded_for[1])
    ELSE <<"ip">> \o FirstGiven(direct)
Prefixed ==
    /\ Head(gate.identifier) \in {"user", "ip"}
    /\ Head(gate.identifier) = "user" <=> gate.user_id # None

AdmittedInTwoWindows(p) ==
    Cardinality({n \in 1..Len(obs[p].prior) :
        FixedWindowStart(obs[p].prior[n], loc[p].rl)
            \in {FixedWindowStart(CheckTime(p), loc[p].rl),
                 FixedWindowStart(CheckTime(p), loc[p].rl) - Window(p)}})

\* C24: fixed window, no store failure, no reset: a check is allowed only
\* while fewer than limit checks were allowed in its window, so at most
\* limit checks are admitted in one window and at most 2 * limit in two
\* adjacent windows.
C24_FixedWindowBoundary ==
    \A p \in Tasks :
        (Done(p) /\ Strategy(p) = "fixed_window" /\ ~everFailed /\ result[p].allowed) =>
            /\ AdmittedInWindow(p) + 1 <= Limit(p)
            /\ AdmittedInTwoWindows(p) + 1 <= 2 * Limit(p)

\* The timestamp list the cache s holds under k (empty: no entry).
StoredListIn(s, k) ==
    IF k \notin DOMAIN s THEN <<>>
    ELSE IF backend = "redis" THEN json_loads(s[k].value) ELSE s[k].value
StoredList(k) == StoredListIn(store, k)
AllowedTasks == {p \in Tasks : Done(p) /\ result[p].allowed}

\* C25: sliding window: when NumTasks > limit concurrent checks of one
\* identifier and class against an empty timestamp list have all returned
\* (no store failure), exactly limit of them were allowed and the stored
\* list holds one timestamp for each allowed check.
C25_ConcurrentSlidingAdmitsLimit ==
    ((\A p \in Tasks : Done(p) /\ Strategy(p) = "sliding_window" /\ NumTasks > Limit(p))
        /\ ~everFailed) =>
        \A q \in Tasks :
            /\ Cardinality(AllowedTasks) = Limit(q)
            /\ Len(StoredList(CheckKey(loc[q]))) = Cardinality(AllowedTasks)

\* The policy every sliding-window list of the run is kept under.
SlidePolicy == default_limits["upload"]
ListsWithinLimit ==
    \A k \in DOMAIN store : Len(StoredList(k)) <= SlidePolicy.requests
\* The step writes the list under k.
Writes(k) == k \in DOMAIN store' /\ (k \notin DOMAIN store \/ store'[k] # store[k])
WrittenInWindow ==
    \A k \in DOMAIN store' :
        Writes(k) =>
            \A n \in 1..Len(StoredListIn(store', k)) :
                /\ StoredListIn(store', k)[n] >= IntSeconds(now) - SlidePolicy.window
                /\ StoredListIn(store', k)[n] <= IntSeconds(now)

RecentAdmissions(p) ==
    {obs[p].prior[n] : n \in {m \in 1..Len(obs[p].prior) :
                                obs[p].prior[m] > CheckTime(p) - Window(p)}}
OldestAdmission(p) ==
    CHOOSE x \in RecentAdmissions(p) : \A y \in RecentAdmissions(p) : x <= y
SlidingDeniedCheck(p) == Done(p) /\ Strategy(p) = "sliding_window" /\ ~result[p].allowed

\* C27: a denied sliding-window check returns a retry_after between 1 and
\* window; without a store failure it was denied with at least limit
\* timestamps newer than now - window, retry_after is
\* max(1, oldest + window - now) and reset_time is oldest + window, oldest
\* being the oldest timestamp still in the window.
C27_SlidingDenyHint ==
    \A p \in Tasks :
      /\ (Done(p) /\ Strategy(p) = "sliding_window" /\ ~everFailed
             /\ AdmittedRecently(p) >= Limit(p)) => ~result[p].allowed
      /\ SlidingDeniedCheck(p) =>
            /\ result[p].retry_after # None
            /\ result[p].retry_after[1] >= 1
            /\ result[p].retry_after[1] <= Window(p)
            /\ ~everFailed =>
                  /\ AdmittedRecently(p) >= Limit(p)
                  /\ result[p].retry_after[1]
                        = Max(1, OldestAdmission(p) + Window(p) - CheckTime(p))
                  /\ result[p].reset_time = OldestAdmission(p) + Window(p)

\* the oldest timestamp is a second old: the hint is shorter than the window
C27_Witness ==
    \E p \in Tasks :
        /\ SlidingDeniedCheck(p) /\ ~everFailed
        /\ OldestAdmission(p) < CheckTime(p)
        /\ result[p].retry_after[1] < Window(p)

\* ceil(a / b) for b > 0
Ceil(a, b) == (a + b - 1) \div b
TokenDeniedCheck(p) == Done(p) /\ Strategy(p) = "token_bucket" /\ ~result[p].allowed

\* C28: a denied token-bucket check, the bucket holding tokens after the
\* refill, returns retry_after = ceil((1 - tokens) / rate) with
\* rate = limit / window, which is at least 1.
C28_TokenRetryAfterCeil ==
    \A p \in Tasks :
        TokenDeniedCheck(p) =>
            /\ result[p].retry_after = Some(Ceil((1 - obs[p].count) * Window(p), Limit(p)))
            /\ result[p].retry_after[1] >= 1

\* The denial of p is the first of the run: every check before it was allowed.
FirstDenial(p) == TokenDeniedCheck(p) /\ ~scen.tracked

\* C29: token bucket, capacity no larger than the limit, no store failure:
\* across a sequence of allowed checks the refill loses no elapsed time, so
\* the check after them is denied only when the bucket that starts full,
\* gains elapsed * limit / window tokens up to its capacity and gives one
\* token to every allowed check holds less than one token.
C29_NoElapsedTimeLost ==
    \A p \in Tasks :
        (FirstDenial(p) /\ ~everFailed /\ MaxTokens(loc[p].rl) <= Limit(p)) =>
            IdealTokens(scen) < IdealUnit

\* The last call was increment_rate_limit on Redis, just now.
IncrementedNow == backend = "redis" /\ ret.op = "increment_rate_limit" /\ ret.at = now
HasTTL(k) == k \in DOMAIN store /\ store[k].expires_at # Forever

\* C30: on Redis no key is ever stored without a TTL, whatever calls failed
\* or were made in between; after an increment_rate_limit that the server
\* has run (also when its reply was lost) the counter is stored with an
\* expiry ahead of the clock, at most the longest TTL away.
C30_IncrementSetsTTL ==
    backend = "redis" =>
        /\ \A k \in DOMAIN store : HasTTL(k)
        /\ (IncrementedNow /\ (ret.reply.value > 0 \/ ret.key \in DOMAIN store)) =>
              /\ HasTTL(ret.key)
              /\ store[ret.key].expires_at > now
              /\ store[ret.key].expires_at <= now + MaxWindow * TicksPerSec

\* a counter created by an increment whose reply was lost, incremented again
C30_Witness ==
    /\ IncrementedNow /\ everFailed
    /\ ret.reply = IntReply(2)
    /\ now > 0
    /\ HasTTL(ret.key)

\* The gatekeeper has delivered a 429.
Rejected == Finished /\ gate.response = "429"

\* C31: the limit field of a delivered denial is the limit of the
\* configuration check_rate_limit enforced for the request: the entry of the
\* caller's tier, or the global entry for a class the table lacks.
C31_ReportedLimitIsEnforced ==
    Rejected => gate.headers["X-RateLimit-Limit"] = str(loc[1].rl.requests)

\* C32: a check made retry_after seconds after a denial, with no check of
\* the identifier and class in between, is allowed.
C32_RetryHintSound == scen.retry # "denied"

\* The entries of s a read at t still finds.
LiveEntries(s, t) == [k \in {x \in DOMAIN s : s[x].expires_at > t} |-> s[k]]
\* The step is the return of check p with allowed = False.
ReturnsDenied(p) == pc[p] = "get" /\ pc'[p] = "done" /\ ~result'[p].allowed

\* C33: a check_rate_limit call that returns allowed = False leaves every
\* live entry of the store as it was, under every strategy: no counter is
\* incremented, no timestamp appended, no bucket state persisted.
C33_DeniedWritesNothing ==
    [][\A p \in Tasks :
          ReturnsDenied(p) => LiveEntries(store', now) = LiveEntries(store, now)]_vars

\* The bucket the store holds under k, and the policy of the run's buckets.
StoredBucket(k) == IF backend = "redis" THEN json_loads(store[k].value) ELSE store[k].value
BucketPolicy == default_limits["upload"]
BucketWithin(b, rl, t) ==
    /\ b.tokens >= 0
    /\ b.tokens <= MaxTokens(rl)
    /\ b.last_refill <= t

\* C34: every bucket state in the store has 0 <= tokens <= capacity
\* (capacity = burst if set, else limit; also with burst < limit) and a
\* last_refill not later than the clock, and once a check has returned, the
\* bucket under its key has a last_refill not later than the time of that
\* check.
C34_BucketStateBounded ==
    /\ \A k \in DOMAIN store : BucketWithin(StoredBucket(k), BucketPolicy, now)
    /\ \A p \in Tasks :
          (Done(p) /\ CheckKey(loc[p]) \in DOMAIN store) =>
              BucketWithin(StoredBucket(CheckKey(loc[p])), loc[p].rl, loc[p].t)

\* burst below the limit: an allowed check after a wait has written the
\* bucket, whose tokens are short of the burst by the one it took
C34_Witness ==
    /\ BucketPolicy.burst # 0 /\ BucketPolicy.burst < BucketPolicy.requests
    /\ Done(1) /\ result[1].allowed /\ ~loc[1].failed
    /\ loc[1].got.kind = "value" /\ loc[1].t > loc[1].got.value.last_refill
    /\ CheckKey(loc[1]) \in DOMAIN store
    /\ StoredBucket(CheckKey(loc[1])) = Bucket(BucketPolicy.burst - 1, loc[1].t)

\* The middleware is through with a request it does not check.
PassedUnchecked ==
    Finished /\ gate.via = "middleware" /\ Unchecked([type |-> gate.scope, path |-> gate.path])
\* The middleware is through with a request whose check raised.
CheckRaised == Finished /\ gate.via = "middleware" /\ pc[1] = "raised"
InvokedOnce == gate.handler = 1 /\ gate.response = "none" /\ gate.raised = "ok"
\* The step is the middleware's call for a request it does not check.
PassesUnchecked == gate'.n # gate.n /\ PassedUnchecked'

\* C35: a request to "/", "/health", "/docs" or "/openapi.json" and every
\* scope that is not http reaches the downstream app, exactly once and
\* without a check, and the step changes nothing in the store; when the
\* check raises inside the middleware the app is invoked exactly once and
\* no response is produced by the middleware.
C35_ExemptAndFailOpen ==
    /\ [](PassedUnchecked => (InvokedOnce /\ gate.verdict = "none"))
    /\ [](CheckRaised => InvokedOnce)
    /\ [][PassesUnchecked => (store' = store /\ pc' = pc)]_vars

\* a check that read another client's text has raised, and the app has run
C35_Witness ==
    /\ CheckRaised /\ loc[1].gotMalformed /\ gate.handler = 1
    /\ gate.path = "/health/"
    /\ store # <<>>

\* a websocket scope has gone to the app while the caller's quota is used up
C35_WitnessUnchecked ==
    /\ PassedUnchecked /\ gate.scope = "websocket" /\ gate.handler = 1
    /\ gate.n = MaxRequests

\* The step is a run of the sweep that deleted something: the store changes
\* and no call was made (every call is mirrored in the unswept twin).
Swept == backend = "memory" /\ store' # store /\ twin' = twin /\ ret' = ret /\ now' = now

\* C36: a run of _cleanup_expired deletes the entries whose expires_at is at
\* or before the time of the run and no other, and leaves every unexpired
\* entry with its value and expiry, whatever set and delete calls were made
\* before it.
C36_SweepRemovesOnlyExpired ==
    [][Swept =>
          /\ DOMAIN store' = {k \in DOMAIN store : store[k].expires_at > now}
          /\ \A k \in DOMAIN store' : store'[k] = store[k]]_vars

\* the sweep has taken an expired entry the unswept twin still holds, and the
\* unexpired entry of the other key is still there with its value and expiry
C36_Witness ==
    /\ backend = "memory"
    /\ \E k \in DOMAIN twin : k \notin DOMAIN store /\ twin[k].expires_at <= now
    /\ \E k \in DOMAIN store : store[k].expires_at > now /\ store[k] = twin[k]
    /\ ret.op = "set" /\ ret.at < now

=============================================================================
